---- MODULE Spec2Model ----
(***************************************************************************)
(* The Z80 interpreter of src/mame_z80/z80.c as a state machine: the       *)
(* context (z80_device), the memory it addresses, the host calls           *)
(* z80_run / z80_get_busack / z80_assert_reset / z80_clear_reset /         *)
(* z80_assert_busreq / z80_clear_busreq, and the run loop with interrupt   *)
(* acceptance.  One action is one host call, executed to its return.       *)
(***************************************************************************)
EXTENDS Integers, Sequences, FiniteSets, TLC

\* ------------------------------------------------------------------ bounds
\* last host cycle the host clock reaches
MaxCycle == 40
\* options->gen.clock_divider handed to init_z80_opts by the host
ClockDivider == 2
\* distance between two interrupt pulses published by the host
PulsePeriod == 16
\* length of one interrupt pulse
PulseLen == 6

\* --------------------------------------------------------------- constants
\* the uint32_t sentinel 0xFFFFFFFF, held as the largest cycle value the
\* checker represents; every cycle the model reaches is far below it
CYCLE_NEVER == 2147483647
INT_MIN == (-2147483647) - 1
\* im2_vector as the host callback leaves it
HostIm2Vector == 255

\* ----------------------------------------------------------- cycle tables
cc_op ==
  <<
     4, 10,  7,  6,  4,  4,  7,  4,  4, 11,  7,  6,  4,  4,  7,  4,
     8, 10,  7,  6,  4,  4,  7,  4, 12, 11,  7,  6,  4,  4,  7,  4,
     7, 10, 16,  6,  4,  4,  7,  4,  7, 11, 16,  6,  4,  4,  7,  4,
     7, 10, 13,  6, 11, 11, 10,  4,  7, 11, 13,  6,  4,  4,  7,  4,
     4,  4,  4,  4,  4,  4,  7,  4,  4,  4,  4,  4,  4,  4,  7,  4,
     4,  4,  4,  4,  4,  4,  7,  4,  4,  4,  4,  4,  4,  4,  7,  4,
     4,  4,  4,  4,  4,  4,  7,  4,  4,  4,  4,  4,  4,  4,  7,  4,
     7,  7,  7,  7,  7,  7,  4,  7,  4,  4,  4,  4,  4,  4,  7,  4,
     4,  4,  4,  4,  4,  4,  7,  4,  4,  4,  4,  4,  4,  4,  7,  4,
     4,  4,  4,  4,  4,  4,  7,  4,  4,  4,  4,  4,  4,  4,  7,  4,
     4,  4,  4,  4,  4,  4,  7,  4,  4,  4,  4,  4,  4,  4,  7,  4,
     4,  4,  4,  4,  4,  4,  7,  4,  4,  4,  4,  4,  4,  4,  7,  4,
     5, 10, 10, 10, 10, 11,  7, 11,  5, 10, 10,  0, 10, 17,  7, 11,
     5, 10, 10, 11, 10, 11,  7, 11,  5,  4, 10, 11, 10,  0,  7, 11,
     5, 10, 10, 19, 10, 11,  7, 11,  5,  4, 10,  4, 10,  0,  7, 11,
     5, 10, 10,  4, 10, 11,  7, 11,  5,  6, 10,  4, 10,  0,  7, 11
  >>

cc_ed ==
  <<
     8,  8,  8,  8,  8,  8,  8,  8,  8,  8,  8,  8,  8,  8,  8,  8,
     8,  8,  8,  8,  8,  8,  8,  8,  8,  8,  8,  8,  8,  8,  8,  8,
     8,  8,  8,  8,  8,  8,  8,  8,  8,  8,  8,  8,  8,  8,  8,  8,
     8,  8,  8,  8,  8,  8,  8,  8,  8,  8,  8,  8,  8,  8,  8,  8,
    12, 12, 15, 20,  8, 14,  8,  9, 12, 12, 15, 20,  8, 14,  8,  9,
    12, 12, 15, 20,  8, 14,  8,  9, 12, 12, 15, 20,  8, 14,  8,  9,
    12, 12, 15, 20,  8, 14,  8, 18, 12, 12, 15, 20,  8, 14,  8, 18,
    12, 12, 15, 20,  8, 14,  8,  8, 12, 12, 15, 20,  8, 14,  8,  8,
     8,  8,  8,  8,  8,  8,  8,  8,  8,  8,  8,  8,  8,  8,  8,  8,
     8,  8,  8,  8,  8,  8,  8,  8,  8,  8,  8,  8,  8,  8,  8,  8,
    16, 16, 16, 16,  8,  8,  8,  8, 16, 16, 16, 16,  8,  8,  8,  8,
    16, 16, 16, 16,  8,  8,  8,  8, 16, 16, 16, 16,  8,  8,  8,  8,
     8,  8,  8,  8,  8,  8,  8,  8,  8,  8,  8,  8,  8,  8,  8,  8,
     8,  8,  8,  8,  8,  8,  8,  8,  8,  8,  8,  8,  8,  8,  8,  8,
     8,  8,  8,  8,  8,  8,  8,  8,  8,  8,  8,  8,  8,  8,  8,  8,
     8,  8,  8,  8,  8,  8,  8,  8,  8,  8,  8,  8,  8,  8,  8,  8
  >>

cc_xy ==
  <<
     8, 14, 11, 10,  8,  8, 11,  8,  8, 15, 11, 10,  8,  8, 11,  8,
    12, 14, 11, 10,  8,  8, 11,  8, 16, 15, 11, 10,  8,  8, 11,  8,
    11, 14, 20, 10,  8,  8, 11,  8, 11, 15, 20, 10,  8,  8, 11,  8,
    11, 14, 17, 10, 23, 23, 19,  8, 11, 15, 17, 10,  8,  8, 11,  8,
     8,  8,  8,  8,  8,  8, 19,  8,  8,  8,  8,  8,  8,  8, 19,  8,
     8,  8,  8,  8,  8,  8, 19,  8,  8,  8,  8,  8,  8,  8, 19,  8,
     8,  8,  8,  8,  8,  8, 19,  8,  8,  8,  8,  8,  8,  8, 19,  8,
    19, 19, 19, 19, 19, 19,  8, 19,  8,  8,  8,  8,  8,  8, 19,  8,
     8,  8,  8,  8,  8,  8, 19,  8,  8,  8,  8,  8,  8,  8, 19,  8,
     8,  8,  8,  8,  8,  8, 19,  8,  8,  8,  8,  8,  8,  8, 19,  8,
     8,  8,  8,  8,  8,  8, 19,  8,  8,  8,  8,  8,  8,  8, 19,  8,
     8,  8,  8,  8,  8,  8, 19,  8,  8,  8,  8,  8,  8,  8, 19,  8,
     9, 14, 14, 14, 14, 15, 11, 15,  9, 14, 14,  0, 14, 21, 11, 15,
     9, 14, 14, 15, 14, 15, 11, 15,  9,  8, 14, 15, 14,  4, 11, 15,
     9, 14, 14, 23, 14, 15, 11, 15,  9,  8, 14,  8, 14,  4, 11, 15,
     9, 14, 14,  8, 14, 15, 11, 15,  9, 10, 14,  8, 14,  4, 11, 15
  >>

cc_ex ==
  <<
     0,  0,  0,  0,  0,  0,  0,  0,  0,  0,  0,  0,  0,  0,  0,  0,
     5,  0,  0,  0,  0,  0,  0,  0,  0,  0,  0,  0,  0,  0,  0,  0,
     5,  0,  0,  0,  0,  0,  0,  0,  5,  0,  0,  0,  0,  0,  0,  0,
     5,  0,  0,  0,  0,  0,  0,  0,  5,  0,  0,  0,  0,  0,  0,  0,
     0,  0,  0,  0,  0,  0,  0,  0,  0,  0,  0,  0,  0,  0,  0,  0,
     0,  0,  0,  0,  0,  0,  0,  0,  0,  0,  0,  0,  0,  0,  0,  0,
     0,  0,  0,  0,  0,  0,  0,  0,  0,  0,  0,  0,  0,  0,  0,  0,
     0,  0,  0,  0,  0,  0,  0,  0,  0,  0,  0,  0,  0,  0,  0,  0,
     0,  0,  0,  0,  0,  0,  0,  0,  0,  0,  0,  0,  0,  0,  0,  0,
     0,  0,  0,  0,  0,  0,  0,  0,  0,  0,  0,  0,  0,  0,  0,  0,
     0,  0,  0,  0,  0,  0,  0,  0,  0,  0,  0,  0,  0,  0,  0,  0,
     5,  5,  5,  5,  0,  0,  0,  0,  5,  5,  5,  5,  0,  0,  0,  0,
     6,  0,  0,  0,  7,  0,  0,  2,  6,  0,  0,  0,  7,  0,  0,  2,
     6,  0,  0,  0,  7,  0,  0,  2,  6,  0,  0,  0,  7,  0,  0,  2,
     6,  0,  0,  0,  7,  0,  0,  2,  6,  0,  0,  0,  7,  0,  0,  2,
     6,  0,  0,  0,  7,  0,  0,  2,  6,  0,  0,  0,  7,  0,  0,  2
  >>

\* cycle-table entry for an opcode byte (C arrays are indexed from 0)
CCv(table, op) == table[op + 1]

u8(x) == x % 256
u16(x) == x % 65536
\* the bits of F
CF == 1
NF == 2
PF == 4
VF == 4
XF == 8
HF == 16
YF == 32
ZF == 64
SF == 128

RECURSIVE BitAnd(_, _)
RECURSIVE BitOr(_, _)
RECURSIVE BitXor(_, _)

\* x & y, x | y and x ^ y on non-negative integers
BitAnd(x, y) ==
  IF x = 0 \/ y = 0 THEN 0
  ELSE (x % 2) * (y % 2) + 2 * BitAnd(x \div 2, y \div 2)

BitOr(x, y) ==
  IF x = 0 THEN y
  ELSE IF y = 0 THEN x
  ELSE (IF x % 2 = 1 \/ y % 2 = 1 THEN 1 ELSE 0)
         + 2 * BitOr(x \div 2, y \div 2)

BitXor(x, y) ==
  IF x = 0 THEN y
  ELSE IF y = 0 THEN x
  ELSE ((x + y) % 2) + 2 * BitXor(x \div 2, y \div 2)

\* (int8_t) of a byte
s8(b) == IF b >= 128 THEN b - 256 ELSE b

\* ----------------------------------------------------------------- state
\* z80   : the z80_device context
\* mem   : the 64 KiB the Z80 addresses (bytes never written read as 0)
\* host_cycle : the host scheduler's clock
\* call  : the last host call, its cycle argument, the call before it, and
\*         released: the PC a z80_clear_busreq found the Z80 frozen at
\*         (kept for the call that follows it, -1 otherwise)
\* obs   : what the last host call did (writes, dispatches, interrupts...)
VARIABLES z80, mem, host_cycle, call, obs, m68k

vars == <<z80, mem, host_cycle, call, obs, m68k>>

\* what a host call has done so far; entry holds the registers the call
\* was entered with
NoObs ==
  [ entry |-> [pc |-> 0, i |-> 0, r |-> 0, r2 |-> 0, iff1 |-> 0, wz |-> 0,
               halt |-> 0, after_ei |-> 0, cycle |-> 0],
    writes |-> 0, dispatches |-> 0, opcodes |-> 0, ints |-> 0, cb_calls |-> 0,
    int_log |-> {}, first_pc |-> -1, last_cost |-> 0, iter_icount |-> 0,
    entry_cycle |-> 0, entry_icount |-> 0,
    crashed |-> FALSE, unmodelled |-> FALSE ]

\* ------------------------------------------------------------ memory access
\* a memory image lists the bytes that differ from its background byte,
\* which is 0 unless the image keeps another one at index -1
rm(S, addr) ==
  IF addr \in DOMAIN S.m THEN S.m[addr]
  ELSE IF -1 \in DOMAIN S.m THEN S.m[-1] ELSE 0

wm(S, addr, value) ==
  [S EXCEPT !.m = [x \in (DOMAIN S.m) \cup {addr} |->
                     IF x = addr THEN value ELSE S.m[x]],
            !.o.writes = @ + 1]

\* wm16 writes r->b.l at addr and r->b.h at (uint16_t)(addr+1)
\* the word stored high byte first
wm16_highfirst(S, addr, w) ==
  wm(wm(S, addr, w \div 256), u16(addr + 1), w % 256)

wm16(S, addr, w) == wm(wm(S, addr, w % 256), u16(addr + 1), w \div 256)

\* the high byte read at addr + 1 without the 16-bit wrap
rm16_nowrap(S, addr) == rm(S, addr) + 256 * rm(S, addr + 1)

rm16(S, addr) == rm(S, addr) + 256 * rm(S, u16(addr + 1))

\* rop/arg: the byte at PC; PC++ is SkipPC
rop(S) == rm(S, S.c.m_pc)

SkipPC(S, n) == [S EXCEPT !.c.m_pc = u16(@ + n)]

arg16(S) == rm(S, S.c.m_pc) + 256 * rm(S, u16(S.c.m_pc + 1))

push(S, w) ==
  LET sp == u16(S.c.m_sp - 2)
  IN  wm16([S EXCEPT !.c.m_sp = sp], sp, w)

pop_pc(S) ==
  [S EXCEPT !.c.m_pc = rm16(S, S.c.m_sp), !.c.m_sp = u16(@ + 2)]

CC(S, n) == [S EXCEPT !.c.m_icount = @ - n]

\* ---------------------------------------------------------------- opcodes
halt(S) == [S EXCEPT !.c.m_pc = u16(@ - 1), !.c.m_halt = 1]

\* the halt left without the PC++
leave_halt_keeppc(S) ==
  IF S.c.m_halt # 0 THEN [S EXCEPT !.c.m_halt = 0] ELSE S

leave_halt(S) ==
  IF S.c.m_halt # 0
    THEN [S EXCEPT !.c.m_halt = 0, !.c.m_pc = u16(@ + 1)]
    ELSE S

\* EI that sets IFF1 alone
ei_iff1only(S) == [S EXCEPT !.c.m_iff1 = 1, !.c.m_after_ei = 1]

ei(S) == [S EXCEPT !.c.m_iff1 = 1, !.c.m_iff2 = 1, !.c.m_after_ei = 1]

op_f3(S) == [S EXCEPT !.c.m_iff1 = 0, !.c.m_iff2 = 0]

jp(S) ==
  LET a == arg16(S) IN [S EXCEPT !.c.m_pc = a, !.c.m_wz = a]

jr(S) ==
  LET a  == s8(rop(S))
      pc == u16(S.c.m_pc + 1 + a)
  IN  [S EXCEPT !.c.m_pc = pc, !.c.m_wz = pc]

call_(S) ==
  LET ea == arg16(S)
      S1 == [SkipPC(S, 2) EXCEPT !.c.m_ea = ea, !.c.m_wz = ea]
      S2 == push(S1, S1.c.m_pc)
  IN  [S2 EXCEPT !.c.m_pc = ea]

rst(S, addr) ==
  LET S1 == push(S, S.c.m_pc)
  IN  [S1 EXCEPT !.c.m_pc = addr, !.c.m_wz = addr]

op_c9(S) ==
  LET S1 == pop_pc(S) IN [S1 EXCEPT !.c.m_wz = S1.c.m_pc]

reti(S) ==
  LET S1 == pop_pc(S)
  IN  [S1 EXCEPT !.c.m_wz = S1.c.m_pc, !.c.m_iff1 = S1.c.m_iff2]

op_32(S) ==
  LET ea == arg16(S)
      S1 == wm([SkipPC(S, 2) EXCEPT !.c.m_ea = ea], ea, S.c.m_a)
  IN  [S1 EXCEPT !.c.m_wz = 256 * S.c.m_a + ((ea + 1) % 256)]

op_3e(S) == [SkipPC(S, 1) EXCEPT !.c.m_a = rop(S)]

retn(S) ==
  LET S1 == pop_pc(S)
  IN  [S1 EXCEPT !.c.m_wz = S1.c.m_pc, !.c.m_iff1 = S1.c.m_iff2]

ld_i_a(S) == [S EXCEPT !.c.m_i = S.c.m_a]

ld_r_a(S) ==
  [S EXCEPT !.c.m_r = S.c.m_a, !.c.m_r2 = (S.c.m_a \div 128) * 128]

\* ------------------------------------------- conditional and block opcodes
\* the C truth value of !x
LNot(x) == IF x = 0 THEN 1 ELSE 0

\* B and C, the halves of BC
RegB(S) == S.c.m_bc \div 256

RegC(S) == S.c.m_bc % 256

\* B--
DecB(S) == [S EXCEPT !.c.m_bc = 256 * u8(RegB(S) - 1) + RegC(S)]

\* the branch kept on a false condition
jr_cond_freetaken(S, cond, opcode) ==
  IF cond # 0 THEN jr(S) ELSE SkipPC(S, 1)

jr_cond(S, cond, opcode) ==
  IF cond # 0 THEN CC(jr(S), CCv(cc_ex, opcode)) ELSE SkipPC(S, 1)

call_cond(S, cond, opcode) ==
  IF cond # 0
    THEN CC(call_(S), CCv(cc_ex, opcode))
    ELSE [SkipPC(S, 2) EXCEPT !.c.m_wz = arg16(S)]

ret_cond(S, cond, opcode) ==
  IF cond # 0 THEN CC(op_c9(S), CCv(cc_ex, opcode)) ELSE S

\* the io map, held above the 64K of the memory map
IoBase == 65536

io_address_mask == 255

in(S, port) == rm(S, IoBase + port)

out(S, port, value) == wm(S, IoBase + BitAnd(port, io_address_mask), value)

\* SZ[i] and SZP[i] as init_z80_context fills them
SZ(i) == BitOr(IF i # 0 THEN BitAnd(i, SF) ELSE ZF, BitAnd(i, YF + XF))

RECURSIVE BitCount(_)

BitCount(i) == IF i = 0 THEN 0 ELSE (i % 2) + BitCount(i \div 2)

SZP(i) == BitOr(SZ(i), IF BitCount(i) % 2 = 1 THEN 0 ELSE PF)

FlagIf(cond, flag) == IF cond THEN flag ELSE 0

\* F after LDI/LDD: sum is A + io, bc the decremented BC
LdFlags(f, sum, bc) ==
  BitOr(BitOr(BitOr(BitAnd(f, SF + ZF + CF),
                    FlagIf(BitAnd(sum, 2) # 0, YF)),
              FlagIf(BitAnd(sum, 8) # 0, XF)),
        FlagIf(bc # 0, VF))

LdStep(S, io, dir) ==
  [wm(S, S.c.m_de, io) EXCEPT
     !.c.m_f = LdFlags(S.c.m_f, S.c.m_a + io, u16(S.c.m_bc - 1)),
     !.c.m_hl = u16(@ + dir), !.c.m_de = u16(@ + dir),
     !.c.m_bc = u16(@ - 1)]

ldi(S) == LdStep(S, rm(S, S.c.m_hl), 1)

ldd(S) == LdStep(S, rm(S, S.c.m_hl), -1)

\* F after CPI/CPD: base is F before the undocumented bits, res the
\* difference after the half-carry adjustment
CpBase(f, a, val, res) ==
  BitOr(BitOr(BitOr(BitAnd(f, CF), BitAnd(SZ(res), 255 - (YF + XF))),
              BitAnd(BitXor(BitXor(a, val), res), HF)),
        NF)

CpAdjust(base, res) == IF BitAnd(base, HF) # 0 THEN u8(res - 1) ELSE res

CpFinish(base, res, bc) ==
  BitOr(BitOr(BitOr(base, FlagIf(BitAnd(res, 2) # 0, YF)),
              FlagIf(BitAnd(res, 8) # 0, XF)),
        FlagIf(bc # 0, VF))

CpFlags(base, res, bc) == CpFinish(base, CpAdjust(base, res), bc)

CpStep(S, val, res, dir) ==
  [S EXCEPT !.c.m_wz = u16(@ + dir), !.c.m_hl = u16(@ + dir),
            !.c.m_bc = u16(@ - 1),
            !.c.m_f = CpFlags(CpBase(S.c.m_f, S.c.m_a, val, res), res,
                              u16(S.c.m_bc - 1))]

CpRead(S, val, dir) == CpStep(S, val, u8(S.c.m_a - val), dir)

cpi(S) == CpRead(S, rm(S, S.c.m_hl), 1)

cpd(S) == CpRead(S, rm(S, S.c.m_hl), -1)

\* F after INI/IND/OUTI/OUTD: b is the decremented B
IoFlags(b, io, t) ==
  BitOr(BitOr(BitOr(SZ(b), FlagIf(BitAnd(io, SF) # 0, NF)),
              FlagIf(BitAnd(t, 256) # 0, HF + CF)),
        BitAnd(SZP(BitXor(BitAnd(t, 7), b)), PF))

\* INI/IND: S has B decremented already, bc is BC as it was read
InStep(S, io, bc, dir) ==
  [wm(S, S.c.m_hl, io) EXCEPT
     !.c.m_wz = u16(bc + dir), !.c.m_hl = u16(@ + dir),
     !.c.m_f = IoFlags(RegB(S), io, u8((bc % 256) + dir) + io)]

ini(S) == InStep(DecB(S), in(S, S.c.m_bc), S.c.m_bc, 1)

ind(S) == InStep(DecB(S), in(S, S.c.m_bc), S.c.m_bc, -1)

\* OUTI/OUTD: S has B decremented already
OutStep(S, io, dir) ==
  [out(S, S.c.m_bc, io) EXCEPT
     !.c.m_wz = u16(S.c.m_bc + dir), !.c.m_hl = u16(@ + dir),
     !.c.m_f = IoFlags(RegB(S), io, (u16(S.c.m_hl + dir) % 256) + io)]

outi(S) == OutStep(DecB(S), rm(S, S.c.m_hl), 1)

outd(S) == OutStep(DecB(S), rm(S, S.c.m_hl), -1)

\* the repeat of a block opcode: PC -= 2, and WZ = PC + 1 where the
\* handler sets it
RepeatBlock(S, again, opcode, setwz) ==
  IF again
    THEN CC([S EXCEPT !.c.m_pc = u16(@ - 2),
                      !.c.m_wz = IF setwz THEN u16(S.c.m_pc - 1) ELSE @],
            CCv(cc_ex, opcode))
    ELSE S

LdRepeat(S, opcode) == RepeatBlock(S, S.c.m_bc # 0, opcode, TRUE)

CpRepeat(S, opcode) ==
  RepeatBlock(S, S.c.m_bc # 0 /\ BitAnd(S.c.m_f, ZF) = 0, opcode, TRUE)

IoRepeat(S, opcode) == RepeatBlock(S, RegB(S) # 0, opcode, FALSE)

\* the LDIR that never repeats
ldir_once(S) == ldi(S)

ldir(S) == LdRepeat(ldi(S), 176)

cpir(S) == CpRepeat(cpi(S), 177)

inir(S) == IoRepeat(ini(S), 178)

otir(S) == IoRepeat(outi(S), 179)

lddr(S) == LdRepeat(ldd(S), 184)

cpdr(S) == CpRepeat(cpd(S), 185)

indr(S) == IoRepeat(ind(S), 186)

otdr(S) == IoRepeat(outd(S), 187)

Unmodelled(S) == [S EXCEPT !.o.unmodelled = TRUE]

\* opcode bytes of the main page whose handlers are modelled
MainOps ==
  {0, 16, 24, 32, 40, 48, 50, 56, 62, 118, 192, 195, 196, 200, 201, 204, 205,
   208, 212, 216, 220, 221, 224, 228, 232, 236, 237, 240, 243, 244, 248, 251,
   252, 253, 255}

\* opcode bytes of the ED page whose handlers are modelled
EdOps == {69, 70, 71, 77, 79, 86, 94, 176, 177, 178, 179, 184, 185, 186, 187}

ed_body(S, op) ==
  CASE op = 70 -> [S EXCEPT !.c.m_im = 0]
    [] op = 86 -> [S EXCEPT !.c.m_im = 1]
    [] op = 94 -> [S EXCEPT !.c.m_im = 2]
    [] op = 71 -> ld_i_a(S)
    [] op = 79 -> ld_r_a(S)
    [] op = 69 -> retn(S)
    [] op = 77 -> reti(S)
    [] op = 176 -> ldir(S)
    [] op = 177 -> cpir(S)
    [] op = 178 -> inir(S)
    [] op = 179 -> otir(S)
    [] op = 184 -> lddr(S)
    [] op = 185 -> cpdr(S)
    [] op = 186 -> indr(S)
    [] op = 187 -> otdr(S)
    [] OTHER -> Unmodelled(S)

\* EXEC(ed, rop): charge cc_ed[op], then the handler
EXEC_ed(S) ==
  LET op == rop(S)
      S1 == [CC(SkipPC(S, 1), CCv(cc_ed, op)) EXCEPT !.o.opcodes = @ + 1]
  IN  ed_body(S1, op)

RECURSIVE op_body(_, _)
RECURSIVE EXEC_xy(_)

\* the handler op_XX of the main page, without its cycle charge
op_body(S, op) ==
  CASE op = 0   -> S
    [] op = 24  -> jr(S)
    [] op = 50  -> op_32(S)
    [] op = 62  -> op_3e(S)
    [] op = 118 -> halt(S)
    [] op = 195 -> jp(S)
    [] op = 201 -> op_c9(S)
    [] op = 205 -> call_(S)
    [] op = 221 -> EXEC_xy([S EXCEPT !.c.m_r = u8(@ + 1)])
    [] op = 237 -> EXEC_ed([S EXCEPT !.c.m_r = u8(@ + 1)])
    [] op = 243 -> op_f3(S)
    [] op = 251 -> ei(S)
    [] op = 253 -> EXEC_xy([S EXCEPT !.c.m_r = u8(@ + 1)])
    [] op = 255 -> rst(S, 56)
    [] op = 16  -> jr_cond(DecB(S), RegB(DecB(S)), 16)
    [] op = 32  -> jr_cond(S, LNot(BitAnd(S.c.m_f, ZF)), 32)
    [] op = 40  -> jr_cond(S, BitAnd(S.c.m_f, ZF), 40)
    [] op = 48  -> jr_cond(S, LNot(BitAnd(S.c.m_f, CF)), 48)
    [] op = 56  -> jr_cond(S, BitAnd(S.c.m_f, CF), 56)
    [] op = 192 -> ret_cond(S, LNot(BitAnd(S.c.m_f, ZF)), 192)
    [] op = 196 -> call_cond(S, LNot(BitAnd(S.c.m_f, ZF)), 196)
    [] op = 200 -> ret_cond(S, BitAnd(S.c.m_f, ZF), 200)
    [] op = 204 -> call_cond(S, BitAnd(S.c.m_f, ZF), 204)
    [] op = 208 -> ret_cond(S, LNot(BitAnd(S.c.m_f, CF)), 208)
    [] op = 212 -> call_cond(S, LNot(BitAnd(S.c.m_f, CF)), 212)
    [] op = 216 -> ret_cond(S, BitAnd(S.c.m_f, CF), 216)
    [] op = 220 -> call_cond(S, BitAnd(S.c.m_f, CF), 220)
    [] op = 224 -> ret_cond(S, LNot(BitAnd(S.c.m_f, PF)), 224)
    [] op = 228 -> call_cond(S, LNot(BitAnd(S.c.m_f, PF)), 228)
    [] op = 232 -> ret_cond(S, BitAnd(S.c.m_f, PF), 232)
    [] op = 236 -> call_cond(S, BitAnd(S.c.m_f, PF), 236)
    [] op = 240 -> ret_cond(S, LNot(BitAnd(S.c.m_f, SF)), 240)
    [] op = 244 -> call_cond(S, LNot(BitAnd(S.c.m_f, SF)), 244)
    [] op = 248 -> ret_cond(S, BitAnd(S.c.m_f, SF), 248)
    [] op = 252 -> call_cond(S, BitAnd(S.c.m_f, SF), 252)
    [] OTHER -> Unmodelled(S)

\* EXEC(dd, rop) and EXEC(fd, rop): charge cc_xy[op]; for the modelled
\* bytes dd_XX and fd_XX are illegal_1 followed by op_XX
EXEC_xy(S) ==
  LET op == rop(S)
      S1 == [CC(SkipPC(S, 1), CCv(cc_xy, op)) EXCEPT !.o.opcodes = @ + 1]
  IN  IF op \in MainOps THEN op_body(S1, op) ELSE Unmodelled(S1)

\* EXEC(op, rop): charge cc_op[op], then the handler
EXEC_op(S) ==
  LET op == rop(S)
      S1 == [CC(SkipPC(S, 1), CCv(cc_op, op)) EXCEPT !.o.opcodes = @ + 1]
  IN  op_body(S1, op)

\* -------------------------------------------------------------- interrupts
\* irq_vector & 0xff0000 and irq_vector & 0x0038 on an int
VectorOpcodeBits(v) == ((v \div 65536) % 256) * 65536

VectorRstBits(v) == ((v \div 8) % 8) * 8

\* WZ = PCD
SetWZ(S) == [S EXCEPT !.c.m_wz = S.c.m_pc]

\* the mode switch of take_interrupt, entered with the halt left and the
\* flip-flops cleared
InterruptMode(S, irq_vector) ==
  IF S.c.m_im = 2 THEN
    LET P == push(S, S.c.m_pc)
    IN  CC([P EXCEPT !.c.m_pc = rm16(P, (irq_vector % 256) + 256 * S.c.m_i)],
           CCv(cc_op, 205) + CCv(cc_ex, 255))
  ELSE IF S.c.m_im = 1 THEN
    CC([push(S, S.c.m_pc) EXCEPT !.c.m_pc = 56],
       CCv(cc_op, 255) + CCv(cc_ex, 255))
  ELSE IF irq_vector = 0 THEN
    CC(S, CCv(cc_ex, 255))
  ELSE IF VectorOpcodeBits(irq_vector) = 13434880 THEN
    CC([push(S, S.c.m_pc) EXCEPT !.c.m_pc = irq_vector % 65536],
       CCv(cc_op, 205) + CCv(cc_ex, 255))
  ELSE IF VectorOpcodeBits(irq_vector) = 12779520 THEN
    CC([S EXCEPT !.c.m_pc = irq_vector % 65536],
       CCv(cc_op, 195) + CCv(cc_ex, 255))
  ELSE
    CC([push(S, S.c.m_pc) EXCEPT !.c.m_pc = VectorRstBits(irq_vector)],
       CCv(cc_op, 255) + CCv(cc_ex, 255))

take_interrupt(S) ==
  SetWZ(InterruptMode(
          [leave_halt([S EXCEPT !.c.m_prvpc = 65535]) EXCEPT
             !.c.m_iff1 = 0, !.c.m_iff2 = 0],
          S.c.im2_vector))

\* the host's next_int_pulse callback: it publishes the next pulse window
\* after the context's current cycle and the vector byte
next_int_pulse(S) ==
  LET start == ((S.c.current_cycle \div PulsePeriod) + 1) * PulsePeriod
  IN  [S EXCEPT !.c.int_pulse_start = start,
                !.c.int_pulse_end = start + PulseLen,
                !.c.im2_vector = HostIm2Vector,
                !.o.cb_calls = @ + 1]

\* z80->next_int_pulse(z80) inside the loop: the pointer is not tested
CallNextIntPulse(S) ==
  IF S.c.next_int_pulse THEN next_int_pulse(S)
  ELSE [S EXCEPT !.o.crashed = TRUE]

\* the conversion rounded down instead of up
CeilDiv_floor(x) == x \div ClockDivider

\* ((x) + clock_divider - 1) / clock_divider
CeilDiv(x) == (x + ClockDivider - 1) \div ClockDivider

\* the value the loop stores in int_icount when int_pulse_start < target
IntIcount(S) ==
  IF S.c.int_pulse_start < S.c.current_cycle
    THEN S.c.m_icount
    ELSE CeilDiv(S.c.int_pulse_start - S.c.current_cycle)

\* the test without the EI shadow
InterruptDue_noshadow(S, int_icount) ==
  S.c.m_icount <= int_icount /\ S.c.m_iff1 # 0

\* the loop's test before each instruction
InterruptDue(S, int_icount) ==
  S.c.m_icount <= int_icount /\ S.c.m_iff1 # 0 /\ S.c.m_after_ei = 0

\* target_cycle - z80->m_icount * clock_divider
ExitCycle(S, target_cycle) == target_cycle - S.c.m_icount * ClockDivider

\* the loop left one T-state early
LoopContinues_early(S) == S.c.m_icount > 1

\* while (z80->m_icount > 0)
LoopContinues(S) == S.c.m_icount > 0

\* the acknowledge without the m_icount = 0
BusreqCheck_keepcount(S) ==
  IF S.c.busreq # 0 THEN [S EXCEPT !.c.busack = 1] ELSE S

\* the m_icount = 0 without the acknowledge
BusreqCheck_noack(S) ==
  IF S.c.busreq # 0 THEN [S EXCEPT !.c.m_icount = 0] ELSE S

\* if (z80->busreq) { busack = 1; m_icount = 0; }
BusreqCheck(S) ==
  IF S.c.busreq # 0
    THEN [S EXCEPT !.c.busack = 1, !.c.m_icount = 0]
    ELSE S

\* host-cycle position of the instruction boundary the loop is at
Position(S) ==
  S.o.entry_cycle + ClockDivider * (S.o.entry_icount - S.c.m_icount)

LogInterrupt(S) ==
  [S EXCEPT !.o.ints = @ + 1,
            !.o.int_log = @ \cup
              {[ iff1 |-> S.c.m_iff1, after_ei |-> S.c.m_after_ei,
                 pos |-> Position(S), pc |-> S.c.m_pc, halt |-> S.c.m_halt,
                 last_op |-> rm(S, S.c.m_prvpc),
                 start |-> S.c.int_pulse_start,
                 end |-> S.c.int_pulse_end ]}]

\* z80->current_cycle = target_cycle - z80->m_icount * clock_divider
SyncCycle(S, target_cycle) ==
  [S EXCEPT !.c.current_cycle = ExitCycle(S, target_cycle)]

\* the interrupt branch of a pass: take_interrupt, the current_cycle
\* update and the callback
AcceptInterrupt(S, target_cycle) ==
  CallNextIntPulse(SyncCycle(take_interrupt(LogInterrupt(S)), target_cycle))

\* m_after_ei = 0; PRVPC = PCD; m_r++
Prefetch(S) ==
  [S EXCEPT !.c.m_after_ei = 0, !.c.m_prvpc = S.c.m_pc, !.c.m_r = u8(@ + 1),
            !.o.dispatches = @ + 1]

\* the T-states the pass has charged, noted before the busreq check
NoteCost(S) == [S EXCEPT !.o.last_cost = S.o.iter_icount - S.c.m_icount]

\* the pass from its dispatch on: EXEC(op, rop) and the busreq check
Dispatch(S) == BusreqCheck(NoteCost(EXEC_op(Prefetch(S))))

\* int_icount as the interrupt branch leaves it
IntIcountAfter(S, target_cycle, int_icount) ==
  IF S.c.int_pulse_start < target_cycle THEN IntIcount(S) ELSE int_icount

RECURSIVE RunLoop(_, _, _)

\* } while (z80->m_icount > 0);
LoopEnd(S, target_cycle, int_icount) ==
  IF S.o.unmodelled THEN S
  ELSE IF LoopContinues(S) THEN RunLoop(S, target_cycle, int_icount)
  ELSE S

\* a pass whose interrupt branch has been taken
AfterInterrupt(S, target_cycle, int_icount) ==
  IF S.o.crashed THEN S
  ELSE LoopEnd(Dispatch(S), target_cycle,
               IntIcountAfter(S, target_cycle, int_icount))

\* the pass with its entry noted
LoopPass(S, target_cycle, int_icount) ==
  IF InterruptDue(S, int_icount)
    THEN AfterInterrupt(AcceptInterrupt(S, target_cycle), target_cycle,
                        int_icount)
    ELSE LoopEnd(Dispatch(S), target_cycle, int_icount)

\* one pass of the do { ... } while of z80_run, then the rest of the loop
RunLoop(S, target_cycle, int_icount) ==
  LoopPass([S EXCEPT !.o.iter_icount = S.c.m_icount,
                     !.o.first_pc = IF @ = -1 THEN S.c.m_pc ELSE @],
           target_cycle, int_icount)

\* the gate testing busack alone
Gated_busackonly(S) == S.c.busack # 0

\* if (z80->busack || z80->reset)
Gated(S) == S.c.busack # 0 \/ S.c.reset # 0

\* the callback z80_run makes before the loop when the window is stale
RefreshPulse(S) ==
  IF S.c.next_int_pulse /\
     (S.c.int_pulse_end < S.c.current_cycle \/ S.c.int_pulse_end = CYCLE_NEVER)
    THEN next_int_pulse(S) ELSE S

\* m_icount for the call, with the entry noted
LoadIcount(S, target_cycle) ==
  [S EXCEPT !.c.m_icount = CeilDiv(target_cycle - S.c.current_cycle),
            !.o.entry_cycle = S.c.current_cycle,
            !.o.entry_icount = CeilDiv(target_cycle - S.c.current_cycle)]

\* int_icount before the loop
FirstIntIcount(S, target_cycle) ==
  IF S.c.int_pulse_start < target_cycle THEN IntIcount(S) ELSE INT_MIN

\* the assignment after the loop
StoreCycle(S, target_cycle) ==
  IF S.o.crashed \/ S.o.unmodelled THEN S
  ELSE SyncCycle(S, target_cycle)

\* the loop entered with m_icount loaded
EnterLoop(S, target_cycle) ==
  StoreCycle(RunLoop(S, target_cycle, FirstIntIcount(S, target_cycle)),
             target_cycle)

z80_run_noreturn(S, target_cycle) ==
  IF Gated(S) THEN
    [S EXCEPT !.c.current_cycle = target_cycle]
  ELSE
    EnterLoop(LoadIcount(RefreshPulse(S), target_cycle), target_cycle)

z80_run(S, target_cycle) ==
  IF Gated(S) THEN
    [S EXCEPT !.c.current_cycle = target_cycle]
  ELSE IF S.c.current_cycle >= target_cycle THEN
    S
  ELSE
    EnterLoop(LoadIcount(RefreshPulse(S), target_cycle), target_cycle)

\* z80->reset = 1
SetReset(S) ==
  IF S.o.crashed \/ S.o.unmodelled THEN S ELSE [S EXCEPT !.c.reset = 1]

\* the edge applied before the catch-up
z80_assert_reset_early(S, cycle) == z80_run([S EXCEPT !.c.reset = 1], cycle)

z80_assert_reset(S, cycle) == SetReset(z80_run(S, cycle))

\* the reset without m_r2 = 0
z80_clear_reset_keepr2(S, cycle) ==
  IF S.c.reset = 0 THEN S
  ELSE LET S1 == z80_run(S, cycle)
       IN  [S1 EXCEPT !.c.m_pc = 0, !.c.m_i = 0, !.c.m_r = 0,
                      !.c.m_after_ei = 0, !.c.m_iff1 = 0, !.c.m_iff2 = 0,
                      !.c.reset = 0, !.c.m_wz = 0]

z80_clear_reset(S, cycle) ==
  IF S.c.reset = 0 THEN S
  ELSE LET S1 == z80_run(S, cycle)
       IN  [S1 EXCEPT !.c.m_pc = 0, !.c.m_i = 0, !.c.m_r = 0, !.c.m_r2 = 0,
                      !.c.m_after_ei = 0, !.c.m_iff1 = 0, !.c.m_iff2 = 0,
                      !.c.reset = 0, !.c.m_wz = 0]

z80_assert_busreq(S, cycle) == [S EXCEPT !.c.busreq = 1]

\* the release without busack = 0
z80_clear_busreq_keepack(S, cycle) == [S EXCEPT !.c.busreq = 0]

z80_clear_busreq(S, cycle) == [S EXCEPT !.c.busreq = 0, !.c.busack = 0]

z80_get_busack(S, cycle) == z80_run(S, cycle)

\* ---------------------------------------------------------------- programs
Bytes(base, seq) == [a \in base .. (base + Len(seq) - 1) |-> seq[a - base + 1]]

\* LD A,85h; LD I,A; LD R,A; IM 1; EI; NOP; LD (0040h),A; HALT
\* 0038h: LD (0041h),A; EI; RETI
ProgIm1 ==
  Bytes(0, <<62, 133, 237, 71, 237, 79, 237, 86, 251, 0, 50, 64, 0, 118>>) @@
  Bytes(56, <<50, 65, 0, 251, 237, 77>>)

\* DD FD DD FD DD LD (0050h),A; EI; CALL 0020h; DD FD NOP; JR 0000h
\* 0020h: DI; RET      0038h: EI; RET
ProgPrefix ==
  Bytes(0, <<221, 253, 221, 253, 221, 50, 80, 0, 251, 205, 32, 0,
             221, 253, 0, 24, 239>>) @@
  Bytes(32, <<243, 201>>) @@ Bytes(56, <<251, 201>>)

\* IM 2; LD A,01h; LD I,A; NOP x4; EI; NOP...     vector at 01FFh -> 0060h
\* 0060h: LD (0070h),A; EI; RET
ProgIm2 ==
  Bytes(0, <<237, 94, 62, 1, 237, 71, 0, 0, 0, 0, 251>>) @@
  Bytes(96, <<50, 112, 0, 251, 201>>) @@ Bytes(511, <<96, 0>>)

\* EI; HALT (interrupt mode 0)      0038h: EI; RET
ProgHalt ==
  Bytes(0, <<251, 118>>) @@ Bytes(56, <<251, 201>>)

Programs == {ProgIm1, ProgPrefix, ProgIm2, ProgHalt}

\* ------------------------------------------------------ the 68k context
\* no interrupt level latched in int_pending
INT_NONE == 255

RUN_MODE_NORMAL == 0

RUN_MODE_BERR_AERR_RESET == 1

\* pointer slots per CPU: 24 MiB in 64 KiB slots
M68kSlots == 0 .. 383

NULL == -1

\* the m68000_base_device as calloc leaves it; sp holds the banked stack
\* pointers by s_flag | m_flag
M68kZero ==
  [ sp_reg |-> 0, sp |-> [b \in {0, 4, 6} |-> 0], pc |-> 0, ppc |-> 0, ir |-> 0,
    t1_flag |-> 0, t0_flag |-> 0, s_flag |-> 0, m_flag |-> 0, int_mask |-> 0,
    ccr |-> 0, stopped |-> 0, run_mode |-> RUN_MODE_NORMAL, instr_mode |-> 0,
    pref_addr |-> 0, tracing |-> 0,
    int_pending |-> 0, int_ack |-> 0, current_cycle |-> 0, target_cycle |-> 0,
    status |-> 0, clock_divider |-> 1, cyc_instruction |-> NULL,
    cyc_exception |-> NULL,
    read_pointers |-> [b \in M68kSlots |-> NULL],
    write_pointers |-> [b \in M68kSlots |-> NULL] ]

\* ------------------------------------------------------------------- Init
\* the context as init_z80_context leaves it (calloc, then the register
\* resets); next_int_pulse is the host's to install
InitContext(cb) ==
  [ m_prvpc |-> 0, m_pc |-> 0, m_sp |-> 0, m_a |-> 0, m_wz |-> 0,
    m_bc |-> 0, m_de |-> 0, m_hl |-> 0,
    m_f |-> ZF, m_r |-> 0, m_r2 |-> 0, m_iff1 |-> 0, m_iff2 |-> 0,
    m_halt |-> 0,
    m_im |-> 0, m_i |-> 0, busreq |-> 0, busack |-> 0, reset |-> 0,
    m_after_ei |-> 0, m_ea |-> 0, m_icount |-> 0, current_cycle |-> 0,
    int_pulse_start |-> 0, int_pulse_end |-> 0, im2_vector |-> 0,
    nmi_start |-> 0, next_int_pulse |-> cb ]

Init ==
  /\ \E cb \in BOOLEAN : z80 = InitContext(cb)
  /\ mem \in Programs
  /\ host_cycle = 0
  /\ call = [op |-> "init", cycle |-> 0, prev |-> "init", released |-> -1]
  /\ obs = NoObs
  /\ m68k = M68kZero

\* ---------------------------------------------------------------- actions
\* the cycle arguments the host passes: its clock never runs backwards
Deltas == {0, 5, 20}

HostCycles == {host_cycle + d : d \in Deltas} \cap (0 .. MaxCycle)

Alive == ~obs.crashed /\ ~obs.unmodelled

Machine ==
  [ c |-> z80, m |-> mem,
    o |-> [NoObs EXCEPT !.entry =
             [pc |-> z80.m_pc, i |-> z80.m_i, r |-> z80.m_r, r2 |-> z80.m_r2,
              iff1 |-> z80.m_iff1, wz |-> z80.m_wz, halt |-> z80.m_halt,
              after_ei |-> z80.m_after_ei, cycle |-> z80.current_cycle]] ]

Commit(name, cycle, S) ==
  /\ z80' = S.c
  /\ mem' = S.m
  /\ obs' = S.o
  /\ UNCHANGED m68k
  /\ host_cycle' = cycle
  /\ call' = [op |-> name, cycle |-> cycle, prev |-> call.op,
              released |->
                IF name = "z80_clear_busreq"
                  THEN (IF z80.busack # 0 THEN z80.m_pc ELSE -1)
                  ELSE (IF call.op = "z80_clear_busreq"
                          THEN call.released ELSE -1)]

Run ==
  /\ Alive
  /\ \E t \in HostCycles : Commit("z80_run", t, z80_run(Machine, t))

GetBusack ==
  /\ Alive
  /\ \E t \in HostCycles :
       Commit("z80_get_busack", t, z80_get_busack(Machine, t))

AssertReset ==
  /\ Alive
  /\ \E t \in HostCycles :
       Commit("z80_assert_reset", t, z80_assert_reset(Machine, t))

ClearReset ==
  /\ Alive
  /\ \E t \in HostCycles :
       Commit("z80_clear_reset", t, z80_clear_reset(Machine, t))

\* z80_assert_busreq and z80_clear_busreq do not read their cycle argument:
\* the host passes its clock as it stands
AssertBusreq ==
  /\ Alive
  /\ Commit("z80_assert_busreq", host_cycle,
            z80_assert_busreq(Machine, host_cycle))

ClearBusreq ==
  /\ Alive
  /\ Commit("z80_clear_busreq", host_cycle,
            z80_clear_busreq(Machine, host_cycle))

Next ==
  \/ Run
  \/ GetBusack
  \/ AssertReset
  \/ ClearReset
  \/ AssertBusreq
  \/ ClearBusreq

Spec == Init /\ [][Next]_vars

\* every opcode the programs reach has a modelled handler
AllModelled == ~obs.unmodelled

\* ------------------------------------------------------------------ claims
RunCalls == {"z80_run", "z80_get_busack", "z80_assert_reset"}

\* the call returned to the host
Returned == ~obs.crashed /\ ~obs.unmodelled

\* the largest entry of the cycle tables
MaxTableEntry ==
  CHOOSE n \in 0 .. 255 :
    /\ \E op \in 0 .. 255 :
         n \in {CCv(cc_op, op), CCv(cc_ed, op), CCv(cc_xy, op), CCv(cc_ex, op)}
    /\ \A op \in 0 .. 255 :
         /\ CCv(cc_op, op) <= n
         /\ CCv(cc_ed, op) <= n
         /\ CCv(cc_xy, op) <= n
         /\ CCv(cc_ex, op) <= n

\* C1 (as stated): once busreq is asserted, no later z80_run,
\* z80_get_busack or z80_assert_reset performs a memory write until
\* z80_clear_busreq.
C1_NoWriteWhileBusreq ==
  [][(z80.busreq = 1 /\ call'.op \in RunCalls) => obs'.writes = 0]_vars

\* C1 (amended): with busreq asserted, a call that executes at all executes
\* one loop pass (the instruction in flight, after at most one accepted
\* interrupt) and returns with busack = 1; a call entered with busack = 1
\* dispatches nothing and writes nothing.
C1_WritesOnlyInFlight ==
  [][/\ (z80.busreq = 1 /\ call'.op \in RunCalls /\ obs'.dispatches >= 1
          /\ Returned')
        => (z80'.busack = 1 /\ obs'.dispatches = 1 /\ obs'.ints <= 1)
     /\ (z80.busack = 1 /\ call'.op \in RunCalls)
        => (obs'.writes = 0 /\ obs'.dispatches = 0 /\ mem' = mem)]_vars

\* the instruction in flight wrote memory after busreq was asserted
C1_Witness ==
  /\ call.op = "z80_run" /\ call.prev = "z80_assert_busreq"
  /\ z80.busreq = 1 /\ z80.busack = 1 /\ obs.writes > 0

\* C2: after z80_run(t) returns, current_cycle >= t.
C2_RunReachesTarget ==
  (call.op = "z80_run" /\ Returned) => z80.current_cycle >= call.cycle

\* z80_run executed instructions and went past its target
C2_Witness ==
  /\ call.op = "z80_run" /\ Returned /\ obs.dispatches >= 2
  /\ z80.current_cycle > call.cycle

\* C3 (as stated): after z80_run(t) entered with current_cycle < t the
\* overshoot is below the largest cycle-table entry times clock_divider.
C3_OvershootBelowOneEntry ==
  (call.op = "z80_run" /\ Returned /\ obs.entry.cycle < call.cycle)
    => z80.current_cycle - call.cycle < MaxTableEntry * ClockDivider

\* C3 (amended): the overshoot is below clock_divider times the T-states
\* charged by the last loop pass: the accepted interrupt, if any, plus the
\* opcode with all its chained prefixes.
C3_OvershootBelowLastPass ==
  (call.op = "z80_run" /\ Returned /\ obs.dispatches >= 1)
    => z80.current_cycle - call.cycle < obs.last_cost * ClockDivider

\* a last pass that charged more than one table entry and overshot
C3_Witness ==
  /\ call.op = "z80_run" /\ Returned /\ obs.dispatches >= 1
  /\ obs.last_cost > MaxTableEntry
  /\ z80.current_cycle > call.cycle

\* C4: z80_run(t) with busreq asserted, reset clear and t > current_cycle
\* returns with busack = 1 and current_cycle = t.
C4_BusreqRunEndsAtTarget ==
  (call.op = "z80_run" /\ Returned /\ z80.busreq = 1 /\ z80.reset = 0
     /\ call.cycle > obs.entry.cycle)
    => (z80.busack = 1 /\ z80.current_cycle = call.cycle)

\* the instruction in flight cost more than the cycles left to the target
C4_Witness ==
  /\ call.op = "z80_run" /\ Returned /\ z80.busreq = 1 /\ z80.reset = 0
  /\ obs.dispatches = 1
  /\ obs.last_cost * ClockDivider > call.cycle - obs.entry.cycle
  /\ z80.current_cycle = call.cycle

\* C5: z80_run(t) entered with busack or reset set changes current_cycle
\* to t and nothing else.
C5_GatedRunOnlyMovesCycle ==
  [][(call'.op = "z80_run" /\ (z80.busack # 0 \/ z80.reset # 0))
       => /\ z80' = [z80 EXCEPT !.current_cycle = call'.cycle]
          /\ mem' = mem
          /\ obs'.dispatches = 0 /\ obs'.opcodes = 0 /\ obs'.ints = 0
          /\ obs'.cb_calls = 0 /\ obs'.writes = 0]_vars

\* a gated z80_run moved the cycle counter while interrupts were enabled
C5_Witness ==
  /\ call.op = "z80_run" /\ z80.reset = 1 /\ z80.busack = 0
  /\ z80.m_iff1 = 1 /\ obs.dispatches = 0
  /\ obs.entry.cycle < call.cycle /\ z80.current_cycle = call.cycle

\* C6: the z80_run(t) that follows z80_clear_busreq returns with
\* busack = 0, and with t > current_cycle and reset clear it executes
\* instructions starting at the PC the Z80 was frozen at.
C6_ReleaseResumes ==
  (call.op = "z80_run" /\ call.prev = "z80_clear_busreq" /\ Returned)
    => /\ z80.busack = 0
       /\ (z80.reset = 0 /\ call.cycle > obs.entry.cycle)
            => /\ obs.dispatches >= 1
               /\ call.released # -1 => obs.first_pc = call.released

\* a frozen Z80 was released and ran on
C6_Witness ==
  /\ call.op = "z80_run" /\ call.prev = "z80_clear_busreq" /\ Returned
  /\ call.released > 0 /\ obs.dispatches >= 2 /\ z80.busack = 0

\* C7: current_cycle never decreases from one host call to the next.
C7_CycleMonotonic ==
  [][z80'.current_cycle >= z80.current_cycle]_vars

\* C8: every interrupt accepted by a call that returned was accepted with
\* IFF1 = 1, outside the EI shadow, at a position inside
\* [int_pulse_start, int_pulse_end).
C8_AcceptedInsideWindow ==
  Returned =>
    \A a \in obs.int_log :
      /\ a.iff1 = 1
      /\ a.after_ei = 0
      /\ a.start <= a.pos
      /\ a.pos < a.end

\* C9: z80_assert_reset followed by z80_clear_reset leaves PC, I, R, R2,
\* IFF1, IFF2, the EI shadow, WZ and reset at 0.
C9_ResetState ==
  (call.op = "z80_clear_reset" /\ call.prev = "z80_assert_reset" /\ Returned)
    => /\ z80.m_pc = 0 /\ z80.m_i = 0 /\ z80.m_r = 0 /\ z80.m_r2 = 0
       /\ z80.m_iff1 = 0 /\ z80.m_iff2 = 0 /\ z80.m_after_ei = 0
       /\ z80.m_wz = 0 /\ z80.reset = 0

\* the reset found PC, I, R, R2, IFF1 and WZ all non-zero
C9_Witness ==
  /\ call.op = "z80_clear_reset" /\ call.prev = "z80_assert_reset"
  /\ Returned /\ z80.reset = 0
  /\ obs.entry.pc # 0 /\ obs.entry.i # 0 /\ obs.entry.r # 0
  /\ obs.entry.r2 # 0 /\ obs.entry.iff1 # 0 /\ obs.entry.wz # 0

\* C10: z80_assert_reset followed by z80_clear_reset leaves m_halt = 0.
C10_ResetClearsHalt ==
  (call.op = "z80_clear_reset" /\ call.prev = "z80_assert_reset" /\ Returned)
    => z80.m_halt = 0

\* C11: z80_assert_reset(c) runs the Z80 to c before it sets reset (a
\* running Z80 behind c executes instructions, and on return reset = 1 and
\* current_cycle >= c); z80_clear_reset(c) on a context in reset executes
\* nothing, leaves current_cycle = c and applies the edge.
C11_ResetAfterCatchUp ==
  [][/\ (call'.op = "z80_assert_reset" /\ Returned')
          => /\ z80'.reset = 1
             /\ z80'.current_cycle >= call'.cycle
             /\ (z80.busack = 0 /\ z80.reset = 0
                   /\ z80.current_cycle < call'.cycle)
                  => obs'.dispatches >= 1
     /\ (call'.op = "z80_clear_reset" /\ z80.reset = 1)
          => /\ obs'.dispatches = 0 /\ obs'.ints = 0 /\ mem' = mem
             /\ z80'.current_cycle = call'.cycle
             /\ z80'.reset = 0 /\ z80'.m_pc = 0]_vars

\* a reset asserted after instructions ran, then released at a later cycle
C11_Witness ==
  /\ call.op = "z80_clear_reset" /\ call.prev = "z80_assert_reset"
  /\ obs.entry.pc # 0 /\ obs.entry.cycle < call.cycle
  /\ z80.current_cycle = call.cycle /\ z80.reset = 0 /\ z80.m_pc = 0

\* ------------------------------------------- instruction boundaries, alone
\* One boundary of the loop at a time, from contexts a program can set up
\* (LD SP, LD I,A, IM n, EI) and vectors the host can publish: either the
\* dispatch of one instruction or the acceptance of an interrupt.

\* T-states loaded into m_icount
StepBudget == 12

\* NOP everywhere but: LD A,00h at 0000h, HALT at 0010h, the vector words
\* at 00CDh (1234h) and 01FFh (0060h)
IntMem ==
  Bytes(0, <<62, 0>>) @@ Bytes(16, <<118>>) @@ Bytes(205, <<52, 18>>) @@
  Bytes(511, <<96, 0>>)

IntPCs == {15, 4660, 65535}

IntSPs == {0, 1, 32768, 65534}

IntIs == {0, 1, 255}

\* im2_vector is a uint8_t
IntVectors == {0, 195, 205, 255}

IntContext(pc, sp, im, i, v) ==
  [InitContext(TRUE) EXCEPT !.m_pc = pc, !.m_sp = sp, !.m_im = im, !.m_i = i,
                            !.im2_vector = v, !.m_iff1 = 1, !.m_iff2 = 1,
                            !.m_icount = StepBudget]

InitInt ==
  /\ \E pc \in IntPCs, sp \in IntSPs, im \in 0 .. 2, i \in IntIs,
        v \in IntVectors : z80 = IntContext(pc, sp, im, i, v)
  /\ mem = IntMem
  /\ host_cycle = 0
  /\ call = [op |-> "init", cycle |-> 0, prev |-> "init", released |-> -1]
  /\ obs = NoObs
  /\ m68k = M68kZero

\* a loop pass whose interrupt test failed
StepPass ==
  /\ Alive /\ call.op # "take_interrupt"
  /\ LoopContinues(Machine)
  /\ Commit("pass", 0,
            Dispatch([Machine EXCEPT !.o.iter_icount = z80.m_icount]))

\* the interrupt branch of a pass, up to the return of take_interrupt
AcceptIrq ==
  /\ Alive /\ call.op # "take_interrupt"
  /\ z80.m_iff1 # 0 /\ z80.m_after_ei = 0
  /\ Commit("take_interrupt", 0, take_interrupt(LogInterrupt(Machine)))

NextInt ==
  \/ StepPass
  \/ AcceptIrq

SpecInt == InitInt /\ [][NextInt]_vars

\* the byte and the little-endian word a memory holds at an address
MemAt(m, addr) == rm([m |-> m], addr)

WordAt(m, addr) == rm16([m |-> m], addr)

\* C12: a pass that executes HALT at h, or finds the Z80 halted at h, leaves
\* PC = h and m_halt = 1 (4 T-states each time); an interrupt accepted in
\* the halt advances PC once, so h + 1 is the return address and m_halt = 0.
C12_HaltThenInterrupt ==
  [][/\ (call'.op = "pass" /\ MemAt(mem, z80.m_pc) = 118)
          => /\ z80'.m_pc = z80.m_pc /\ z80'.m_halt = 1
             /\ z80'.m_icount = z80.m_icount - 4
     /\ (call'.op = "pass" /\ z80.m_halt = 1)
          => MemAt(mem, z80.m_pc) = 118
     /\ (call'.op = "take_interrupt" /\ z80.m_halt = 1)
          => /\ z80'.m_halt = 0
             /\ IF z80'.m_sp = z80.m_sp
                  THEN z80'.m_pc = u16(z80.m_pc + 1)
                  ELSE WordAt(mem', z80'.m_sp) = u16(z80.m_pc + 1)]_vars

\* HALT at 0010h was re-executed, then an interrupt pushed 0011h
C12_Witness ==
  /\ call.op = "take_interrupt" /\ call.prev = "pass"
  /\ \E a \in obs.int_log : a.halt = 1 /\ a.pc = 16
  /\ z80.m_halt = 0 /\ z80.m_icount < StepBudget - 8
  /\ WordAt(mem, z80.m_sp) = 17

\* the PC take_interrupt pushes: the PC of the boundary, past the HALT when
\* the Z80 was halted
BoundaryPC == IF z80.m_halt # 0 THEN u16(z80.m_pc + 1) ELSE z80.m_pc

\* C13: an IRQ accepted with IM = 1 decreases SP by 2 (mod 2^16), stores
\* the old PC little-endian at the new SP, sets PC = WZ = 0038h and
\* IFF1 = IFF2 = 0, and charges 11 + 2 = 13 T-states.
C13_Im1Acceptance ==
  [][(call'.op = "take_interrupt" /\ z80.m_im = 1)
       => /\ z80'.m_sp = u16(z80.m_sp - 2)
          /\ MemAt(mem', z80'.m_sp) = BoundaryPC % 256
          /\ MemAt(mem', u16(z80'.m_sp + 1)) = BoundaryPC \div 256
          /\ z80'.m_pc = 56 /\ z80'.m_wz = 56
          /\ z80'.m_iff1 = 0 /\ z80'.m_iff2 = 0
          /\ z80'.m_icount = z80.m_icount - 13]_vars

\* PC = 1234h, SP = FFFEh: 34h at FFFCh, 12h at FFFDh
C13_Witness ==
  /\ call.op = "take_interrupt" /\ z80.m_im = 1
  /\ z80.m_sp = 65532 /\ MemAt(mem, 65532) = 52 /\ MemAt(mem, 65533) = 18
  /\ z80.m_pc = 56 /\ z80.m_iff1 = 0

\* (I << 8) | im2_vector
Im2Address == 256 * z80.m_i + z80.im2_vector

\* C14: an IRQ accepted with IM = 2 pushes the old PC, loads PC from the
\* little-endian word at (I << 8) | im2_vector (all 8 vector bits used, the
\* high byte read at address + 1 mod 2^16, after the push), clears IFF1
\* and IFF2 and charges cc_op[0xCD] + cc_ex[0xFF] = 19 T-states.
C14_Im2Acceptance ==
  [][(call'.op = "take_interrupt" /\ z80.m_im = 2)
       => /\ z80'.m_sp = u16(z80.m_sp - 2)
          /\ MemAt(mem', z80'.m_sp) = BoundaryPC % 256
          /\ MemAt(mem', u16(z80'.m_sp + 1)) = BoundaryPC \div 256
          /\ z80'.m_pc = MemAt(mem', Im2Address)
                           + 256 * MemAt(mem', u16(Im2Address + 1))
          /\ z80'.m_wz = z80'.m_pc
          /\ z80'.m_iff1 = 0 /\ z80'.m_iff2 = 0
          /\ z80.m_icount - z80'.m_icount = CCv(cc_op, 205) + CCv(cc_ex, 255)
          /\ z80.m_icount - z80'.m_icount = 19]_vars

\* I = FFh and vector FFh: the word at FFFFh/0000h, odd and wrapping
C14_Witness ==
  /\ call.op = "take_interrupt" /\ z80.m_im = 2
  /\ z80.m_i = 255 /\ z80.im2_vector = 255 /\ z80.m_sp = 65532
  /\ z80.m_pc = 256 * 62 /\ z80.m_iff1 = 0

\* C15: an IRQ accepted with IM = 0 executes a vector carrying C3h as a JP
\* (nothing pushed), one carrying CDh as a CALL (old PC pushed) and any
\* other byte as an RST (old PC pushed, PC = byte & 38h), each charged its
\* opcode's cycles plus the interrupt latency (a 00h vector, the source's
\* "check for nop", is left aside).
C15_Im0Dispatch ==
  [][(call'.op = "take_interrupt" /\ z80.m_im = 0 /\ z80.im2_vector # 0)
       => CASE z80.im2_vector = 195 ->
                 /\ z80'.m_sp = z80.m_sp /\ mem' = mem
                 /\ z80.m_icount - z80'.m_icount
                      = CCv(cc_op, 195) + CCv(cc_ex, 255)
            [] z80.im2_vector = 205 ->
                 /\ z80'.m_sp = u16(z80.m_sp - 2)
                 /\ WordAt(mem', z80'.m_sp) = BoundaryPC
                 /\ z80.m_icount - z80'.m_icount
                      = CCv(cc_op, 205) + CCv(cc_ex, 255)
            [] OTHER ->
                 /\ z80'.m_sp = u16(z80.m_sp - 2)
                 /\ WordAt(mem', z80'.m_sp) = BoundaryPC
                 /\ z80'.m_pc = VectorRstBits(z80.im2_vector)
                 /\ z80.m_icount - z80'.m_icount
                      = CCv(cc_op, 255) + CCv(cc_ex, 255)]_vars

\* ----------------------------------------------- latched cycle timestamps
\* context->nmi_start = cycle
z80_assert_nmi(S, cycle) == [S EXCEPT !.c.nmi_start = cycle]

\* the subtraction without the clamp
AdjustCurrent_unclamped(S, deduction) ==
  [S EXCEPT !.c.current_cycle = @ - deduction]

\* z80_adjust_cycles: current_cycle
AdjustCurrent(S, deduction) ==
  [S EXCEPT !.c.current_cycle = IF @ < deduction THEN 0 ELSE @ - deduction]

\* z80_adjust_cycles: the pulse window
AdjustPulse(S, deduction) ==
  IF S.c.int_pulse_start # CYCLE_NEVER THEN
    IF S.c.int_pulse_end < deduction THEN
      [S EXCEPT !.c.int_pulse_start = CYCLE_NEVER,
                !.c.int_pulse_end = CYCLE_NEVER]
    ELSE
      [S EXCEPT !.c.int_pulse_end =
                  IF @ # CYCLE_NEVER THEN @ - deduction ELSE @,
                !.c.int_pulse_start =
                  IF @ < deduction THEN 0 ELSE @ - deduction]
  ELSE S

z80_adjust_cycles(S, deduction) ==
  AdjustPulse(AdjustCurrent(S, deduction), deduction)

\* the largest timestamp and deduction drawn
MaxStamp == 4

Stamps == 0 .. MaxStamp

\* a window the host's callback can publish
Windows ==
  {w \in (Stamps \cup {CYCLE_NEVER}) \X (Stamps \cup {CYCLE_NEVER}) :
     w[1] = CYCLE_NEVER \/ w[1] <= w[2]}

InitAdjust ==
  /\ \E cc \in Stamps, w \in Windows :
       z80 = [InitContext(TRUE) EXCEPT !.current_cycle = cc,
                                       !.int_pulse_start = w[1],
                                       !.int_pulse_end = w[2]]
  /\ mem = ProgHalt
  /\ host_cycle = 0
  /\ call = [op |-> "init", cycle |-> 0, prev |-> "init", released |-> -1]
  /\ obs = NoObs
  /\ m68k = M68kZero

\* a host call that takes a cycle count and leaves the host clock alone
CommitStamp(name, arg, S) ==
  /\ z80' = S.c
  /\ mem' = S.m
  /\ obs' = S.o
  /\ UNCHANGED m68k
  /\ call' = [op |-> name, cycle |-> arg, prev |-> call.op, released |-> -1]
  /\ UNCHANGED host_cycle

AssertNmi ==
  /\ Alive
  /\ \E c \in Stamps :
       CommitStamp("z80_assert_nmi", c, z80_assert_nmi(Machine, c))

AdjustCycles ==
  /\ Alive
  /\ \E d \in Stamps :
       CommitStamp("z80_adjust_cycles", d, z80_adjust_cycles(Machine, d))

NextAdjust ==
  \/ AssertNmi
  \/ AdjustCycles

SpecAdjust == InitAdjust /\ [][NextAdjust]_vars

\* C16: z80_adjust_cycles(d) on a context whose current_cycle,
\* int_pulse_start, int_pulse_end and nmi_start are all >= d and not the
\* never sentinel reduces each of the four by d.
C16_AllStampsReduced ==
  [][(/\ call'.op = "z80_adjust_cycles"
      /\ \A t \in {z80.current_cycle, z80.int_pulse_start,
                   z80.int_pulse_end, z80.nmi_start} :
           t >= call'.cycle /\ t # CYCLE_NEVER)
       => /\ z80'.current_cycle = z80.current_cycle - call'.cycle
          /\ z80'.int_pulse_start = z80.int_pulse_start - call'.cycle
          /\ z80'.int_pulse_end = z80.int_pulse_end - call'.cycle
          /\ z80'.nmi_start = z80.nmi_start - call'.cycle]_vars

\* C17: z80_adjust_cycles(d) never wraps below zero: current_cycle < d
\* becomes 0; a window that ended before d becomes never/never; a window
\* open across d gets start 0 and its end reduced by d; an int_pulse_end of
\* never stays never.
C17_AdjustClamps ==
  [][call'.op = "z80_adjust_cycles"
       => /\ z80.current_cycle < call'.cycle => z80'.current_cycle = 0
          /\ (z80.int_pulse_start # CYCLE_NEVER
                /\ z80.int_pulse_end < call'.cycle)
               => /\ z80'.int_pulse_start = CYCLE_NEVER
                  /\ z80'.int_pulse_end = CYCLE_NEVER
          /\ (z80.int_pulse_start < call'.cycle
                /\ call'.cycle <= z80.int_pulse_end
                /\ z80.int_pulse_end # CYCLE_NEVER)
               => /\ z80'.int_pulse_start = 0
                  /\ z80'.int_pulse_end = z80.int_pulse_end - call'.cycle
          /\ z80.int_pulse_end = CYCLE_NEVER
               => z80'.int_pulse_end = CYCLE_NEVER
          /\ \A t \in {z80'.current_cycle, z80'.int_pulse_start,
                       z80'.int_pulse_end, z80'.nmi_start} :
               0 <= t /\ t <= CYCLE_NEVER]_vars

\* a deduction larger than current_cycle and the window's start, inside
\* the window
C17_Witness ==
  /\ call.op = "z80_adjust_cycles" /\ obs.entry.cycle < call.cycle
  /\ z80.current_cycle = 0 /\ z80.int_pulse_start = 0
  /\ z80.int_pulse_end > 0 /\ z80.int_pulse_end # CYCLE_NEVER

\* --------------------------------------------------------------- snapshots
\* a serialize_buffer with nothing stored in it
EmptyBuffer == << >>

\* void z80_serialize(z80_context *context, serialize_buffer *buf) { }
z80_serialize(context, buf) == buf

\* void z80_deserialize(deserialize_buffer *buf, void *vcontext) { }
z80_deserialize(buf, vcontext) == vcontext

\* the context saved and loaded into another one, fresh from
\* init_z80_context, which takes its place
SnapshotRestore ==
  /\ Alive /\ call.op # "z80_deserialize"
  /\ CommitStamp("z80_deserialize", 0,
       [Machine EXCEPT !.c = z80_deserialize(
                               z80_serialize(z80, EmptyBuffer),
                               InitContext(z80.next_int_pulse))])

NextSnapshot ==
  \/ StepPass
  \/ SnapshotRestore

SpecSnapshot == InitInt /\ [][NextSnapshot]_vars

\* the deadlines the two contexts are run to
Deadlines == {0, 2 * StepBudget}

\* where a context is after z80_run to a deadline
TraceEnd(context, target_cycle) ==
  z80_run([c |-> context, m |-> mem, o |-> NoObs], target_cycle).c

\* C18: z80_serialize(s, buf) followed by z80_deserialize(buf, s') makes s'
\* equivalent to s: run to the same deadline, both reach the same PC at the
\* same cycle count.
C18_SnapshotRoundTrip ==
  [][call'.op = "z80_deserialize"
       => \A t \in Deadlines :
            /\ TraceEnd(z80', t).m_pc = TraceEnd(z80, t).m_pc
            /\ TraceEnd(z80', t).current_cycle
                 = TraceEnd(z80, t).current_cycle]_vars

\* ------------------------------------------------------------- flag tables
Byte == 0 .. 255

\* the low 8 bits of a C int (two's complement)
Low8(val) == val % 256

\* (newval) ? ((newval & 0x80) ? SF : 0) : ZF
SignZero(newval) ==
  IF newval # 0 THEN (IF BitAnd(newval, 128) # 0 THEN SF ELSE 0) ELSE ZF

\* (val^oldval^0x80) & (val^newval) & 0x80
AddOverflow(val, oldval, newval) ==
  BitAnd(BitAnd(BitXor(BitXor(Low8(val), oldval), 128),
                BitXor(Low8(val), newval)), 128)

\* (val^oldval) & (oldval^newval) & 0x80
SubOverflow(val, oldval, newval) ==
  BitAnd(BitAnd(BitXor(Low8(val), oldval), BitXor(oldval, newval)), 128)

\* the flags every entry starts from
EntryBase(first, newval) ==
  BitOr(first, BitAnd(newval, BitOr(YF, XF)))

\* one entry, its conditions decided
Entry(base, half, carry, overflow) ==
  BitOr(BitOr(BitOr(base, IF half THEN HF ELSE 0),
              IF carry THEN CF ELSE 0),
        IF overflow THEN VF ELSE 0)

\* *padd: add or adc w/o carry set
padd(oldval, newval) ==
  Entry(EntryBase(SignZero(newval), newval),
        BitAnd(newval, 15) < BitAnd(oldval, 15),
        newval < oldval,
        AddOverflow(newval - oldval, oldval, newval) # 0)

\* the carry compared with < as in padd
padc_strict(oldval, newval) ==
  Entry(EntryBase(SignZero(newval), newval),
        BitAnd(newval, 15) <= BitAnd(oldval, 15),
        newval < oldval,
        AddOverflow(newval - oldval - 1, oldval, newval) # 0)

\* *padc: adc with carry set
padc(oldval, newval) ==
  Entry(EntryBase(SignZero(newval), newval),
        BitAnd(newval, 15) <= BitAnd(oldval, 15),
        newval <= oldval,
        AddOverflow(newval - oldval - 1, oldval, newval) # 0)

\* *psub: cp, sub or sbc w/o carry set
psub(oldval, newval) ==
  Entry(EntryBase(BitOr(NF, SignZero(newval)), newval),
        BitAnd(newval, 15) > BitAnd(oldval, 15),
        newval > oldval,
        SubOverflow(oldval - newval, oldval, newval) # 0)

\* *psbc: sbc with carry set
psbc(oldval, newval) ==
  Entry(EntryBase(BitOr(NF, SignZero(newval)), newval),
        BitAnd(newval, 15) >= BitAnd(oldval, 15),
        newval >= oldval,
        SubOverflow(oldval - newval - 1, oldval, newval) # 0)

\* SZHVC_add[index] and SZHVC_sub[index] as the loops fill them: the first
\* 256*256 entries without carry, the next 256*256 with it; oldval is the
\* outer loop
SZHVC_add(index) ==
  IF index < 65536
    THEN padd(index \div 256, index % 256)
    ELSE padc((index - 65536) \div 256, index % 256)

SZHVC_sub(index) ==
  IF index < 65536
    THEN psub(index \div 256, index % 256)
    ELSE psbc((index - 65536) \div 256, index % 256)

\* A and F after an 8-bit operation whose table index and result are known
SetAF(S, flags, res) == [S EXCEPT !.c.m_f = flags, !.c.m_a = res]

\* ah | res, with ah = AFD & 0xff00, and (c << 16) | ah | res
add_a(S, value) ==
  SetAF(S, SZHVC_add(256 * S.c.m_a + u8(S.c.m_a + value)),
        u8(S.c.m_a + value))

adc_a(S, value) ==
  SetAF(S, SZHVC_add(65536 * BitAnd(S.c.m_f, 1) + 256 * S.c.m_a
                       + u8(S.c.m_a + value + BitAnd(S.c.m_f, 1))),
        u8(S.c.m_a + value + BitAnd(S.c.m_f, 1)))

sub(S, value) ==
  SetAF(S, SZHVC_sub(256 * S.c.m_a + u8(S.c.m_a - value)),
        u8(S.c.m_a - value))

sbc_a(S, value) ==
  SetAF(S, SZHVC_sub(65536 * BitAnd(S.c.m_f, 1) + 256 * S.c.m_a
                       + u8(S.c.m_a - value - BitAnd(S.c.m_f, 1))),
        u8(S.c.m_a - value - BitAnd(S.c.m_f, 1)))

\* A and the carry flag before an arithmetic instruction, the other flags
\* as init_z80_context leaves them
InitFlags ==
  /\ \E a \in Byte, c \in {0, 1} :
       z80 = [InitContext(TRUE) EXCEPT !.m_a = a, !.m_f = BitOr(ZF, c)]
  /\ mem = ProgHalt
  /\ host_cycle = 0
  /\ call = [op |-> "init", cycle |-> 0, prev |-> "init", released |-> -1]
  /\ obs = NoObs
  /\ m68k = M68kZero

AddA ==
  /\ call.op = "init"
  /\ \E value \in Byte : CommitStamp("add_a", value, add_a(Machine, value))

AdcA ==
  /\ call.op = "init"
  /\ \E value \in Byte : CommitStamp("adc_a", value, adc_a(Machine, value))

Sub ==
  /\ call.op = "init"
  /\ \E value \in Byte : CommitStamp("sub", value, sub(Machine, value))

SbcA ==
  /\ call.op = "init"
  /\ \E value \in Byte : CommitStamp("sbc_a", value, sbc_a(Machine, value))

NextFlags ==
  \/ AddA
  \/ AdcA
  \/ Sub
  \/ SbcA

SpecFlags == InitFlags /\ [][NextFlags]_vars

\* the reference recipe: SF from bit 7 of r, ZF from r = 0, YF/XF from
\* bits 5/3 of r, HF, VF, CF and NF as given
RefFlags(r, half, overflow, carry, negative) ==
  (IF r >= 128 THEN SF ELSE 0) + (IF r = 0 THEN ZF ELSE 0)
    + (IF (r \div 32) % 2 = 1 THEN YF ELSE 0)
    + (IF (r \div 8) % 2 = 1 THEN XF ELSE 0)
    + (IF half THEN HF ELSE 0) + (IF overflow THEN VF ELSE 0)
    + (IF carry THEN CF ELSE 0) + (IF negative THEN NF ELSE 0)

\* a signed byte
Signed(b) == IF b >= 128 THEN b - 256 ELSE b

\* the flags of a + b + c: nibble carry, signed overflow, unsigned carry
RefAdd(a, b, c) ==
  RefFlags((a + b + c) % 256,
           (a % 16) + (b % 16) + c >= 16,
           Signed(a) + Signed(b) + c \notin -128 .. 127,
           a + b + c >= 256, FALSE)

\* the flags of a - b - c: nibble borrow, signed overflow, unsigned borrow
RefSub(a, b, c) ==
  RefFlags((a - b - c) % 256,
           (a % 16) - (b % 16) - c < 0,
           Signed(a) - Signed(b) - c \notin -128 .. 127,
           a - b - c < 0, TRUE)

\* the carry an instruction adds in: ADD and SUB take none
CarryIn(name, f) == IF name \in {"adc_a", "sbc_a"} THEN f % 2 ELSE 0

\* C19: for every a, b in 0..255 and carry c, with r = (a + b + c) mod 256,
\* SZHVC_add[(c<<16)|(a<<8)|r] is the reference flags of a + b + c, and
\* SZHVC_sub[(c<<16)|(a<<8)|((a - b - c) mod 256)] the reference flags of
\* a - b - c with NF set; ADD/ADC/SUB/SBC leave those flags in F and the
\* result in A.
C19_FlagTables ==
  [][/\ call'.op \in {"add_a", "adc_a"}
          => /\ SZHVC_add(65536 * CarryIn(call'.op, z80.m_f) + 256 * z80.m_a
                   + u8(z80.m_a + call'.cycle + CarryIn(call'.op, z80.m_f)))
                  = RefAdd(z80.m_a, call'.cycle, CarryIn(call'.op, z80.m_f))
             /\ z80'.m_f
                  = RefAdd(z80.m_a, call'.cycle, CarryIn(call'.op, z80.m_f))
             /\ z80'.m_a
                  = u8(z80.m_a + call'.cycle + CarryIn(call'.op, z80.m_f))
     /\ call'.op \in {"sub", "sbc_a"}
          => /\ SZHVC_sub(65536 * CarryIn(call'.op, z80.m_f) + 256 * z80.m_a
                   + u8(z80.m_a - call'.cycle - CarryIn(call'.op, z80.m_f)))
                  = RefSub(z80.m_a, call'.cycle, CarryIn(call'.op, z80.m_f))
             /\ z80'.m_f
                  = RefSub(z80.m_a, call'.cycle, CarryIn(call'.op, z80.m_f))
             /\ z80'.m_a
                  = u8(z80.m_a - call'.cycle - CarryIn(call'.op, z80.m_f))]_vars

\* ADC A,00h with A = 7Fh and carry set: 80h with SF, HF and VF
C19_Witness ==
  /\ call.op = "adc_a" /\ call.cycle = 0
  /\ z80.m_a = 128 /\ z80.m_f = SF + HF + VF

\* ---------------------------------------------------- SpecBranch: one pass
\* of z80_run's loop over a conditional or repeating opcode
\* T-states of a run
BranchBudget == 30

BranchPC == 256

JrOps == {16, 32, 40, 48, 56}

RetOps == {192, 200, 208, 216, 224, 232, 240, 248}

CallOps == {196, 204, 212, 220, 228, 236, 244, 252}

BlockOps == {176, 177, 178, 179, 184, 185, 186, 187}

\* the opcode with its operand: JR and DJNZ back onto themselves, CALL to
\* BranchPC
Operands(op) ==
  IF op \in JrOps THEN <<op, 254>>
  ELSE IF op \in CallOps THEN <<op, BranchPC % 256, BranchPC \div 256>>
  ELSE <<op>>

BranchProgs ==
  {Operands(op) : op \in JrOps \cup RetOps \cup CallOps}
    \cup {<<p>> \o Operands(op) :
            p \in {221, 253}, op \in JrOps \cup RetOps \cup CallOps}
    \cup {<<237, op>> : op \in BlockOps}

\* the program at BranchPC, the return address BranchPC on the stack at
\* 8000h, the bytes 07h 00h at 4000h for HL, 80h on port 0101h
BranchMem(prog) ==
  Bytes(BranchPC, prog) @@ Bytes(32768, <<BranchPC % 256, BranchPC \div 256>>)
    @@ Bytes(16384, <<7, 0>>) @@ Bytes(IoBase + 257, <<128>>)

BranchFlags == {c + z + p + s : c \in {0, CF}, z \in {0, ZF}, p \in {0, PF},
                                s \in {0, SF}}

BranchBCs == {0, 1, 2, 256, 257, 512}

BranchAs == {0, 7}

BranchContext(f, bc, a) ==
  [InitContext(TRUE) EXCEPT !.m_pc = BranchPC, !.m_sp = 32768, !.m_f = f,
                            !.m_bc = bc, !.m_a = a, !.m_hl = 16384,
                            !.m_de = 20480, !.m_icount = BranchBudget]

InitBranch ==
  /\ \E f \in BranchFlags, bc \in BranchBCs, a \in BranchAs :
       z80 = BranchContext(f, bc, a)
  /\ \E prog \in BranchProgs : mem = BranchMem(prog)
  /\ host_cycle = 0
  /\ call = [op |-> "init", cycle |-> 0, prev |-> "init", released |-> -1]
  /\ obs = NoObs
  /\ m68k = M68kZero

SpecBranch == InitBranch /\ [][StepPass]_vars

\* the Z80's condition codes NZ Z NC C PO PE P M on a flag byte
CondHolds(cc, f) ==
  CASE cc = 0 -> BitAnd(f, ZF) = 0
    [] cc = 1 -> BitAnd(f, ZF) # 0
    [] cc = 2 -> BitAnd(f, CF) = 0
    [] cc = 3 -> BitAnd(f, CF) # 0
    [] cc = 4 -> BitAnd(f, PF) = 0
    [] cc = 5 -> BitAnd(f, PF) # 0
    [] cc = 6 -> BitAnd(f, SF) = 0
    [] cc = 7 -> BitAnd(f, SF) # 0

\* whether the Z80 takes the branch or repeats the block opcode op, from
\* the registers and the memory before it
Taken(op, c, m) ==
  CASE op = 16 -> c.m_bc \div 256 # 1
    [] op \in JrOps \ {16} -> CondHolds((op - 32) \div 8, c.m_f)
    [] op \in RetOps \cup CallOps -> CondHolds((op \div 8) % 8, c.m_f)
    [] op \in {176, 184} -> c.m_bc # 1
    [] op \in {177, 185} -> c.m_bc # 1 /\ MemAt(m, c.m_hl) # c.m_a
    [] op \in {178, 179, 186, 187} -> c.m_bc \div 256 # 1

\* table entry for the opcode, and the cc_ex entry when taken
Charge(table, op, c, m) ==
  CCv(table, op) + (IF Taken(op, c, m) THEN CCv(cc_ex, op) ELSE 0)

\* the first and second byte at PC
Byte0(c, m) == MemAt(m, c.m_pc)

Byte1(c, m) == MemAt(m, u16(c.m_pc + 1))

\* the pass at PC dispatches one of the opcodes in question
AtBranch(c, m) ==
  \/ Byte0(c, m) \in JrOps \cup RetOps \cup CallOps
  \/ Byte0(c, m) \in {221, 253} /\ Byte1(c, m) \in JrOps \cup RetOps \cup CallOps
  \/ Byte0(c, m) = 237 /\ Byte1(c, m) \in BlockOps

BranchCharge(c, m) ==
  CASE Byte0(c, m) = 237 -> Charge(cc_ed, Byte1(c, m), c, m)
    [] Byte0(c, m) \in {221, 253} -> Charge(cc_xy, Byte1(c, m), c, m)
    [] OTHER -> Charge(cc_op, Byte0(c, m), c, m)

\* C20: a pass that dispatches a conditional JR, DJNZ, a conditional CALL or
\* RET, or a repeating block opcode deducts from m_icount the prefix table's
\* entry for the opcode when the branch or repeat is not taken, and that
\* entry plus cc_ex[op] when it is
C20_BranchCycleCharge ==
  [][(call'.op = "pass" /\ AtBranch(z80, mem))
       => /\ obs'.last_cost = BranchCharge(z80, mem)
          /\ z80'.m_icount = z80.m_icount - BranchCharge(z80, mem)]_vars

\* LDIR has repeated: 21 T-states charged, PC back on the ED B0, BC not 0
C20_Witness ==
  /\ call.op = "pass" /\ obs.last_cost = 21
  /\ MemAt(mem, z80.m_pc) = 237 /\ MemAt(mem, u16(z80.m_pc + 1)) = 176
  /\ z80.m_bc # 0

\* ------------------------------------------------ 68k data memory interface
\* the host buffers the pointer slots address are held in the memory
\* function at their host offsets, the low byte of a host word first; what
\* the memory map's callbacks answer is held from SlowBase on
SlowBase == 33554432

\* address &= 0xFFFFFF
Mask24(address) == address % 16777216

\* address >> 16
SlotOf(a) == a \div 65536

\* the byte access without the swap of the two bytes of a word
ByteSlot_noswap(ptrs, a) ==
  IF ptrs[SlotOf(a)] # NULL
    THEN [fast |-> TRUE, at |-> ptrs[SlotOf(a)] + (a % 65536)]
    ELSE [fast |-> FALSE, at |-> a]

\* the fast path of a byte access on a masked address a: chunk[(a ^ 1) &
\* 0xFFFF]; the slow path is the callback on a
ByteSlot(ptrs, a) ==
  IF ptrs[SlotOf(a)] # NULL
    THEN [fast |-> TRUE, at |-> ptrs[SlotOf(a)] + (BitXor(a, 1) % 65536)]
    ELSE [fast |-> FALSE, at |-> a]

\* the fast path of a word access: chunk[a >> 1 & 0x7FFF] of the uint16_t
\* view of the buffer ptr points at
WordSlot(test, ptr, a) ==
  IF test # NULL
    THEN [fast |-> TRUE, null |-> ptr = NULL,
          at |-> ptr + 2 * ((a \div 2) % 32768)]
    ELSE [fast |-> FALSE, null |-> FALSE, at |-> a]

\* the location a byte access goes to, the address left unmasked
Access8_nomask(ptrs, address) == ByteSlot(ptrs, address)

Access8(ptrs, address) == ByteSlot(ptrs, Mask24(address))

Access16(ptrs, address) ==
  WordSlot(ptrs[SlotOf(Mask24(address))], ptrs[SlotOf(Mask24(address))],
           Mask24(address))

\* m68ki_write_16 tests write_pointers[base] and stores through
\* read_pointers[base]
AccessWrite16(c, address) ==
  WordSlot(c.write_pointers[SlotOf(Mask24(address))],
           c.read_pointers[SlotOf(Mask24(address))], Mask24(address))

\* read_byte, read_word, write_byte, write_word of the memory map
read_byte(S, a) == rm(S, SlowBase + a)

read_word(S, a) == 256 * rm(S, SlowBase + a) + rm(S, SlowBase + a + 1)

write_byte(S, a, value) == wm(S, SlowBase + a, value)

write_word(S, a, value) ==
  wm(wm(S, SlowBase + a, value \div 256), SlowBase + a + 1, value % 256)

\* a host uint16_t at a host offset
HostWord(S, at) == rm(S, at) + 256 * rm(S, at + 1)

HostWordStore(S, at, value) ==
  wm(wm(S, at, value % 256), at + 1, value \div 256)

Load8(S, acc) == IF acc.fast THEN rm(S, acc.at) ELSE read_byte(S, acc.at)

Load16(S, acc) ==
  IF acc.fast THEN HostWord(S, acc.at) ELSE read_word(S, acc.at)

Store8(S, acc, value) ==
  IF acc.fast THEN wm(S, acc.at, value) ELSE write_byte(S, acc.at, value)

\* a store through a null read_pointers slot is a null dereference
Store16(S, acc, value) ==
  IF acc.fast
    THEN (IF acc.null THEN [S EXCEPT !.o.crashed = TRUE]
                      ELSE HostWordStore(S, acc.at, value))
    ELSE write_word(S, acc.at, value)

m68ki_read_8(S, address) == Load8(S, Access8(S.c.read_pointers, address))

m68ki_write_8(S, address, value) ==
  Store8(S, Access8(S.c.write_pointers, address), value)

m68ki_read_16(S, address) == Load16(S, Access16(S.c.read_pointers, address))

m68ki_write_16(S, address, value) ==
  Store16(S, AccessWrite16(S.c, address), value)

\* m68ki_read_32 and m68ki_write_32: two word accesses, the high word first
m68ki_read_32(S, address) ==
  65536 * m68ki_read_16(S, address) + m68ki_read_16(S, address + 2)

m68ki_write_32(S, address, value) ==
  m68ki_write_16(m68ki_write_16(S, address, value \div 65536), address + 2,
                 value % 65536)

\* ------------------------------------------------------- memory map chunks
\* a chunk is [start, end, flags, buffer, ptr_index]: flags a set of the
\* MMAP_ names, buffer a host offset or NULL; the map is a sequence of
\* chunks and mem_pointers a sequence of host offsets or NULL
Covers(chunk, address) == chunk.start <= address /\ address < chunk.end

\* the first chunk of the map that holds the address, or NoChunk
NoChunk == [start |-> 0, end |-> 0, flags |-> {}, buffer |-> NULL,
            ptr_index |-> 0]

find_map_chunk(address, map) ==
  IF \E i \in DOMAIN map : Covers(map[i], address)
    THEN map[CHOOSE i \in DOMAIN map :
               /\ Covers(map[i], address)
               /\ \A j \in DOMAIN map : Covers(map[j], address) => i <= j]
    ELSE NoChunk

\* the base of a chunk's storage: mem_pointers[ptr_index] under
\* MMAP_PTR_IDX, the buffer otherwise
ChunkBase(chunk, mem_pointers) ==
  IF "PTR_IDX" \in chunk.flags THEN mem_pointers[chunk.ptr_index + 1]
                               ELSE chunk.buffer

\* native_pointer(addr) -> buffer?: the storage of the chunk that holds the
\* address, whatever its access flags; a chunk of one byte lane holds no byte
\* of the other lane, and its bytes are packed
NativeOf(chunk, address, mem_pointers) ==
  IF chunk = NoChunk \/ ChunkBase(chunk, mem_pointers) = NULL
    THEN NULL
    ELSE IF chunk.flags \cap {"ONLY_ODD", "ONLY_EVEN"} # {}
      THEN (IF (address % 2 = 1 /\ "ONLY_EVEN" \in chunk.flags)
                 \/ (address % 2 = 0 /\ "ONLY_ODD" \in chunk.flags)
              THEN NULL
              ELSE ChunkBase(chunk, mem_pointers)
                     + ((address - chunk.start) \div 2))
      ELSE ChunkBase(chunk, mem_pointers) + (address - chunk.start)

get_native_pointer(address, mem_pointers, map) ==
  NativeOf(find_map_chunk(address, map), address, mem_pointers)

\* one pass of an initialiser's slot loop: the pointer a slot is given;
\* skipflags are the flags the initialiser leaves out
SlotPointer(chunk, ptr, address, size, skipflags, need) ==
  IF chunk = NoChunk \/ chunk.end < address + size
       \/ chunk.flags \cap skipflags # {} \/ chunk.buffer = NULL
    THEN NULL
    ELSE IF ptr = NULL THEN NULL
    ELSE IF need \in chunk.flags THEN ptr ELSE NULL

M68kSlotPointer(map, mem_pointers, address, need) ==
  SlotPointer(find_map_chunk(address, map),
              get_native_pointer(address, mem_pointers, map), address, 65536,
              {"ONLY_ODD", "ONLY_EVEN"}, need)

Z80SlotPointer(map, mem_pointers, address, need) ==
  SlotPointer(find_map_chunk(address, map),
              get_native_pointer(address, mem_pointers, map), address, 8192,
              {"PTR_IDX"}, need)

\* -------------------------------------------------------------- 68k core
\* a uint32_t result; TLC's integers end at 2^31 - 1, and the registers and
\* cycle counts of the specifications here stay below that, so that no
\* result wraps
u32(x) == x

SFLAG_SET == 4

MFLAG_SET == 2

STOP_LEVEL_STOP == 1

STOP_LEVEL_HALT == 2

EXCEPTION_RESET == 0

EXCEPTION_UNINITIALIZED_INTERRUPT == 15

EXCEPTION_INTERRUPT_AUTOVECTOR == 24

\* m68ki_exception_cycle_table[0]: the vectors 0 .. 47, and 4 from 48 on
ExceptionCyclesHead ==
  << 40, 4, 50, 50, 34, 38, 40, 34, 34, 34, 4, 4, 4, 4, 4, 44,
     4, 4, 4, 4, 4, 4, 4, 4, 44, 44, 44, 44, 44, 44, 44, 44,
     34, 34, 34, 34, 34, 34, 34, 34, 34, 34, 34, 34, 34, 34, 34, 34 >>

m68ki_exception_cycle_table ==
  [v \in 0 .. 255 |-> IF v < 48 THEN ExceptionCyclesHead[v + 1] ELSE 4]

\* m68ki_cycles[0] on the opcode NOP (4E71h)
M68kOps == {20081}

m68ki_cycles == [o \in M68kOps |-> 4]

\* tmp[i] = table[i] * clock_divider, tmp a uint8_t buffer
CycleEntry(base, k) == (base * k) % 256

\* T1 T0 S M I2 I1 I0 and the CCR as one word
m68ki_get_sr(c) ==
  c.t1_flag + c.t0_flag + 2048 * c.s_flag + 2048 * c.m_flag + c.int_mask
    + c.ccr

\* the banked stack pointer of s_flag | ((s_flag >> 1) & m_flag)
Bank(s, m) == IF s = SFLAG_SET /\ m = MFLAG_SET THEN 6 ELSE s

SaveSP(S) ==
  [S EXCEPT !.c.sp[Bank(S.c.s_flag, S.c.m_flag)] = S.c.sp_reg]

LoadSP(S) ==
  [S EXCEPT !.c.sp_reg = S.c.sp[Bank(S.c.s_flag, S.c.m_flag)]]

m68ki_set_sm_flag(S, value) ==
  LoadSP([SaveSP(S) EXCEPT !.c.s_flag = BitAnd(value, SFLAG_SET),
                           !.c.m_flag = BitAnd(value, MFLAG_SET)])

m68ki_set_s_flag(S, value) ==
  LoadSP([SaveSP(S) EXCEPT !.c.s_flag = value])

m68ki_jump(S, new_pc) == [S EXCEPT !.c.pc = new_pc]

\* m68ki_push_16 and m68ki_push_32
m68ki_push_16(S, value) ==
  m68ki_write_16([S EXCEPT !.c.sp_reg = u32(@ - 2)], u32(S.c.sp_reg - 2),
                 value)

m68ki_push_32(S, value) ==
  m68ki_write_32([S EXCEPT !.c.sp_reg = u32(@ - 4)], u32(S.c.sp_reg - 4),
                 value)

\* the 68000's frame: the PC, then the SR on top of it
m68ki_stack_frame_0000(S, pc, sr, vector) ==
  m68ki_push_16(m68ki_push_32(S, pc), sr)

\* m68ki_init_exception without its result, the SR before it
m68ki_init_exception(S) ==
  m68ki_set_s_flag([S EXCEPT !.c.t1_flag = 0, !.c.t0_flag = 0,
                             !.c.tracing = 0], SFLAG_SET)

\* ---------------------------------------------------------- 68k: the API
INSTRUCTION_NO == 8

\* m68k_init_cpu_m68000 on a context whose options hold the clock divider k,
\* the map and mem_pointers
m68k_init_cpu_m68000(c, k, map, mem_pointers) ==
  [c EXCEPT
     !.current_cycle = 0, !.clock_divider = k,
     !.cyc_instruction = [o \in M68kOps |-> CycleEntry(m68ki_cycles[o], k)],
     !.cyc_exception =
        [v \in 0 .. 255 |-> CycleEntry(m68ki_exception_cycle_table[v], k)],
     !.int_mask = 7 * 256,
     !.status = m68ki_get_sr([c EXCEPT !.int_mask = 7 * 256]) \div 256,
     !.read_pointers =
        [b \in M68kSlots |-> M68kSlotPointer(map, mem_pointers, b * 65536,
                                            "READ")],
     !.write_pointers =
        [b \in M68kSlots |-> M68kSlotPointer(map, mem_pointers, b * 65536,
                                            "WRITE")]]

\* current_cycle += cyc_exception[vector]
ChargeException(S, vector) ==
  [S EXCEPT !.c.current_cycle = u32(@ + S.c.cyc_exception[vector])]

\* m68k_reset_cpu, in its three steps
ResetEnter(S) ==
  m68ki_set_sm_flag([S EXCEPT !.c.stopped = 0,
                              !.c.run_mode = RUN_MODE_BERR_AERR_RESET],
                    SFLAG_SET)

ResetVectors(S) ==
  [S EXCEPT !.c.pref_addr = 4096, !.c.sp_reg = m68ki_read_32(S, 0),
            !.c.pc = m68ki_read_32(S, 4)]

ResetLeave(S) ==
  ChargeException([S EXCEPT !.c.run_mode = RUN_MODE_NORMAL], EXCEPTION_RESET)

\* the reset without the cycles of the reset exception
m68k_reset_cpu_free(S) ==
  [ResetVectors(ResetEnter(S)) EXCEPT !.c.run_mode = RUN_MODE_NORMAL]

m68k_reset_cpu(S) == ResetLeave(ResetVectors(ResetEnter(S)))

\* m68ki_exception_interrupt, from the acknowledge on
\* the acknowledge that leaves the latch as it is
IntAck_keeppending(S, int_level) ==
  [S EXCEPT !.c.int_ack = int_level,
            !.c.current_cycle =
               u32(@ + ((9 - 4) + ((@ \div S.c.clock_divider) % 10))
                         * S.c.clock_divider)]

IntAck(S, int_level) ==
  [S EXCEPT !.c.int_ack = int_level, !.c.int_pending = INT_NONE,
            !.c.current_cycle =
               u32(@ + ((9 - 4) + ((@ \div S.c.clock_divider) % 10))
                         * S.c.clock_divider)]

\* the new PC: the long at the vector, or the one at the uninitialized
\* interrupt vector when that is 0
NewPC(S, vector) ==
  IF m68ki_read_32(S, 4 * vector) = 0
    THEN m68ki_read_32(S, 4 * EXCEPTION_UNINITIALIZED_INTERRUPT)
    ELSE m68ki_read_32(S, 4 * vector)

IntFrame(S, sr, vector, new_pc) ==
  ChargeException(
    m68ki_jump(m68ki_stack_frame_0000(S, S.c.pc, sr, vector), new_pc), vector)

IntLoad(S, sr, vector) == IntFrame(S, sr, vector, NewPC(S, vector))

IntDeliver(S, int_level, vector) ==
  IntLoad([m68ki_init_exception(S) EXCEPT !.c.int_mask = 256 * int_level],
          m68ki_get_sr(S.c), vector)

IntService(S, int_level) ==
  IntDeliver(IntAck(S, int_level), int_level,
             EXCEPTION_INTERRUPT_AUTOVECTOR + int_level)

\* the latch: the first request is only recorded in int_pending
IntLatch(S, int_level) ==
  IF S.c.stopped # 0 THEN S
  ELSE IF S.c.int_pending = INT_NONE
    THEN [S EXCEPT !.c.int_pending = int_level]
    ELSE IntService(S, S.c.int_pending)

\* the interrupt serviced by the call that brings it, nothing latched
m68ki_exception_interrupt_onephase(S, int_level) ==
  IF (S.c.stopped \div 2) * 2 # 0
    THEN [S EXCEPT !.c.instr_mode = INSTRUCTION_NO,
                   !.c.stopped = (@ \div 2) * 2]
    ELSE IntService([S EXCEPT !.c.instr_mode = INSTRUCTION_NO,
                              !.c.stopped = (@ \div 2) * 2],
                    IF S.c.int_pending = INT_NONE THEN int_level
                    ELSE S.c.int_pending)

m68ki_exception_interrupt(S, int_level) ==
  IntLatch([S EXCEPT !.c.instr_mode = INSTRUCTION_NO,
                     !.c.stopped = (@ \div 2) * 2], int_level)

\* m68ki_check_interrupts on the level the host requests (0: none): level 7
\* and any level above the mask are delivered
m68ki_check_interrupts(S, level) ==
  IF level # 0 /\ (level = 7 \/ 256 * level > S.c.int_mask)
    THEN m68ki_exception_interrupt(S, level)
    ELSE S

\* m68ki_exception_trace: vector 9
TraceLoad(S, sr) ==
  ChargeException(
    m68ki_jump(m68ki_stack_frame_0000(S, S.c.pc, sr, 9),
               m68ki_read_32(S, 4 * 9)), 9)

m68ki_exception_trace(S) ==
  TraceLoad([m68ki_init_exception(S) EXCEPT !.c.stopped = (@ \div 2) * 2],
            m68ki_get_sr(S.c))

\* one pass of the main loop
Fetch68k(S) ==
  [S EXCEPT !.c.tracing = S.c.t1_flag, !.c.ppc = S.c.pc,
            !.c.run_mode = RUN_MODE_NORMAL,
            !.c.ir = m68ki_read_16(S, S.c.pc), !.c.pc = u32(@ + 2),
            !.o.dispatches = @ + 1]

\* jump_table[ir], then current_cycle += cyc_instruction[ir]
Handler68k(S) ==
  IF S.c.ir \in M68kOps
    THEN [S EXCEPT !.c.current_cycle = u32(@ + S.c.cyc_instruction[S.c.ir])]
    ELSE Unmodelled(S)

TraceAfter(S) ==
  IF S.c.tracing # 0 /\ ~S.o.unmodelled THEN m68ki_exception_trace(S) ELSE S

ExecPass(S) == TraceAfter(Handler68k(Fetch68k(S)))

RECURSIVE ExecLoop(_)

ExecLoop(S) ==
  IF S.c.current_cycle < S.c.target_cycle /\ ~S.o.unmodelled /\ ~S.o.crashed
    THEN ExecLoop(ExecPass(S))
    ELSE S

SetPpc(S) == [S EXCEPT !.c.ppc = S.c.pc]

\* the stopped CPU left where it is
ExecBody_nocatchup(S) == IF S.c.stopped = 0 THEN SetPpc(ExecLoop(S)) ELSE S

ExecBody(S) ==
  IF S.c.stopped = 0 THEN SetPpc(ExecLoop(S))
  ELSE IF S.c.current_cycle < S.c.target_cycle
    THEN [S EXCEPT !.c.current_cycle = S.c.target_cycle]
    ELSE S

SetStatus(S) == [S EXCEPT !.c.status = m68ki_get_sr(S.c) \div 256]

m68k_cpu_execute(S, level) ==
  SetStatus(ExecBody(m68ki_check_interrupts(S, level)))

\* ------------------------------------------------ Spec68k: the 68k's calls
\* host calls in a run
M68kCalls == 3

\* 68k bytes at 68k addresses from base on, as the host buffer holds them:
\* the two bytes of a word swapped
HostBytes(base, seq) ==
  [a \in base .. (base + Len(seq) - 1) |->
     seq[(IF a % 2 = 0 THEN a + 1 ELSE a - 1) - base + 1]]

Nops == <<78, 113, 78, 113, 78, 113, 78, 113, 78, 113, 78, 113, 78, 113, 78,
          113, 78, 113, 78, 113, 78, 113, 78, 113>>

\* the vectors: SP 00001000h and PC 00000400h for the reset, 0500h for the
\* trace, 0300h for the uninitialized interrupt, 0200h for level 2, none
\* (0) for level 6, 0700h for level 7; NOPs where they point
M68kMem ==
  HostBytes(0, <<0, 0, 16, 0, 0, 0, 4, 0>>) @@ HostBytes(36, <<0, 0, 5, 0>>)
    @@ HostBytes(60, <<0, 0, 3, 0>>) @@ HostBytes(104, <<0, 0, 2, 0>>)
    @@ HostBytes(124, <<0, 0, 7, 0>>) @@ HostBytes(512, Nops)
    @@ HostBytes(768, Nops) @@ HostBytes(1024, Nops) @@ HostBytes(1280, Nops)
    @@ HostBytes(1792, Nops)

\* the same with SP 00000E00h and PC 00000200h for the reset
M68kMemAlt == HostBytes(0, <<0, 0, 14, 0, 0, 0, 2, 0>>) @@ M68kMem

\* the first 64 KiB are RAM with a buffer at host offset 0
M68kMap ==
  << [start |-> 0, end |-> 65536, flags |-> {"READ", "WRITE"}, buffer |-> 0,
      ptr_index |-> 0] >>

\* the main CPU's divider 7 and the sub CPU's 4
Dividers == {4, 7}

\* a context the program has left behind: init, then the registers the
\* program and the host have set
M68kContext(k, t1, s, mask, stopped, pend, cycle) ==
  [m68k_init_cpu_m68000(M68kZero, k, M68kMap, << >>) EXCEPT
     !.t1_flag = t1, !.s_flag = s, !.int_mask = mask, !.stopped = stopped,
     !.int_pending = pend, !.current_cycle = cycle, !.target_cycle = cycle,
     !.pc = 1024, !.sp_reg = 3840,
     !.sp = [b \in {0, 4, 6} |-> 3584 + 16 * b]]

Init68k ==
  /\ \E k \in Dividers, t1 \in {0, 32768}, s \in {0, SFLAG_SET},
        mask \in {768, 1792},
        stopped \in {0, STOP_LEVEL_STOP, STOP_LEVEL_HALT},
        pend \in {INT_NONE, 2, 6}, cycle \in {13} :
       m68k = M68kContext(k, t1, s, mask, stopped, pend, cycle)
  /\ z80 = InitContext(TRUE)
  /\ mem \in {M68kMem, M68kMemAlt}
  /\ host_cycle = 0
  /\ call = [op |-> "init", cycle |-> 0, prev |-> "init", released |-> -1,
             before |-> M68kZero, before_mem |-> M68kMem, n |-> 0]
  /\ obs = NoObs

Machine68k == [c |-> m68k, m |-> mem, o |-> NoObs]

\* before is the context the call was made on
Commit68k(name, arg, S) ==
  /\ m68k' = S.c
  /\ mem' = S.m
  /\ obs' = S.o
  /\ call' = [op |-> name, cycle |-> arg, prev |-> call.op, released |-> -1,
              before |-> m68k, before_mem |-> mem, n |-> call.n + 1]
  /\ UNCHANGED <<z80, host_cycle>>

Alive68k == Alive /\ call.n < M68kCalls

TargetSteps == {0, 30}

\* the host: context->target_cycle = target; m68k_cpu_execute(context)
Execute68k ==
  /\ Alive68k
  /\ \E d \in TargetSteps, level \in {0, 6, 7} :
       Commit68k("m68k_cpu_execute", level,
                 m68k_cpu_execute(
                   [Machine68k EXCEPT
                      !.c.target_cycle = m68k.current_cycle + d], level))

Reset68k ==
  /\ Alive68k
  /\ Commit68k("m68k_reset_cpu", 0, m68k_reset_cpu(Machine68k))

Interrupt68k ==
  /\ Alive68k
  /\ \E level \in {2, 6} :
       Commit68k("m68ki_exception_interrupt", level,
                 m68ki_exception_interrupt(Machine68k, level))

Next68k ==
  \/ Execute68k
  \/ Reset68k
  \/ Interrupt68k

Spec68k == Init68k /\ [][Next68k]_vars

\* C21: when m68k_cpu_execute returns, current_cycle >= target_cycle; a CPU
\* stopped or halted after the interrupt check has executed no instruction
\* and, when it was below the target, is at the target; a running CPU that
\* no interrupt was requested of and that was below the target has executed
\* instructions
C21_ExecuteReachesTarget ==
  (call.op = "m68k_cpu_execute" /\ Returned)
    => /\ m68k.current_cycle >= m68k.target_cycle
       /\ m68k.stopped # 0
            => /\ obs.dispatches = 0
               /\ call.before.current_cycle < m68k.target_cycle
                    => m68k.current_cycle = m68k.target_cycle
       /\ (m68k.stopped = 0 /\ call.cycle = 0
             /\ call.before.current_cycle < m68k.target_cycle)
            => obs.dispatches > 0

\* a halted CPU below its target has been raised to it
C21_Witness ==
  /\ call.op = "m68k_cpu_execute" /\ m68k.stopped = STOP_LEVEL_HALT
  /\ call.before.current_cycle < m68k.current_cycle
  /\ m68k.current_cycle = m68k.target_cycle


\* the big-endian long the 68k holds at an address of the first 64 KiB: the
\* host buffer keeps the two bytes of each word swapped
BigEndianLong(m, a) ==
  16777216 * MemAt(m, a + 1) + 65536 * MemAt(m, a) + 256 * MemAt(m, a + 3)
    + MemAt(m, a + 2)

\* C22: after m68k_reset_cpu, SP is the big-endian long at 0..3 and PC the
\* one at 4..7, the CPU is in supervisor mode with M clear, not stopped, in
\* run_mode NORMAL, and current_cycle has grown by cyc_exception[0]
C22_ResetLoadsVectors ==
  (call.op = "m68k_reset_cpu")
    => /\ m68k.sp_reg = BigEndianLong(call.before_mem, 0)
       /\ m68k.pc = BigEndianLong(call.before_mem, 4)
       /\ m68k.s_flag = SFLAG_SET /\ m68k.m_flag = 0
       /\ m68k.stopped = 0 /\ m68k.run_mode = RUN_MODE_NORMAL
       /\ m68k.current_cycle
            = call.before.current_cycle
                + call.before.cyc_exception[EXCEPTION_RESET]

\* a halted CPU in user mode whose stack held an interrupt's frame is reset
C22_Witness ==
  /\ call.op = "m68k_reset_cpu" /\ call.prev = "m68ki_exception_interrupt"
  /\ call.before.stopped = STOP_LEVEL_HALT /\ call.before.s_flag = 0
  /\ m68k.sp_reg = 3584 /\ m68k.pc = 512


\* C23: after m68k_reset_cpu the trace bits T1 and T0 are clear and the
\* interrupt mask is 7 << 8
C23_ResetClearsTraceAndMask ==
  (call.op = "m68k_reset_cpu")
    => /\ m68k.t1_flag = 0 /\ m68k.t0_flag = 0
       /\ m68k.int_mask = 7 * 256


\* m68ki_exception_interrupt was called on a CPU that is not halted and
\* holds a latched level: the level is serviced
Serviced ==
  /\ call.op = "m68ki_exception_interrupt"
  /\ call.before.stopped < STOP_LEVEL_HALT
  /\ call.before.int_pending # INT_NONE

ServicedLevel == call.before.int_pending

ServicedVector == EXCEPTION_INTERRUPT_AUTOVECTOR + ServicedLevel

\* int_ack, int_pending, int_mask and current_cycle after the service
ServicedState ==
  /\ m68k.int_ack = ServicedLevel
  /\ m68k.int_pending = INT_NONE
  /\ m68k.int_mask = 256 * ServicedLevel
  /\ m68k.current_cycle
       = call.before.current_cycle
           + ((9 - 4)
                + ((call.before.current_cycle \div call.before.clock_divider)
                     % 10)) * call.before.clock_divider
           + call.before.cyc_exception[ServicedVector]

\* C24 as stated: the service of a latched level L leaves int_ack = L,
\* int_pending = 255, int_mask = L << 8, the E-clock and exception cycles
\* charged, and PC the long at (24 + L) * 4
C24_ServiceLoadsVector ==
  Serviced
    => /\ ServicedState
       /\ m68k.pc = BigEndianLong(call.before_mem, 4 * ServicedVector)

\* C24, amended: PC is the long at (24 + L) * 4 unless that long is 0, and
\* then the long at the uninitialized interrupt vector (15 * 4)
C24_ServiceLoadsVectorOrUninitialized ==
  Serviced
    => /\ ServicedState
       /\ m68k.pc
            = IF BigEndianLong(call.before_mem, 4 * ServicedVector) # 0
                THEN BigEndianLong(call.before_mem, 4 * ServicedVector)
                ELSE BigEndianLong(call.before_mem,
                                   4 * EXCEPTION_UNINITIALIZED_INTERRUPT)

\* a latched level 6, whose autovector is 0, has been serviced through the
\* uninitialized interrupt vector
C24_Witness ==
  /\ Serviced /\ ServicedLevel = 6
  /\ m68k.pc = 768 /\ m68k.int_mask = 1536 /\ m68k.int_ack = 6


\* C25: after m68k_init_cpu_m68000 with the clock divider k, every entry of
\* cyc_exception and cyc_instruction is the base table's entry times k
C25_CycleTablesScaled ==
  /\ \A v \in 0 .. 255 :
       m68k.cyc_exception[v]
         = m68ki_exception_cycle_table[v] * m68k.clock_divider
  /\ \A o \in M68kOps :
       m68k.cyc_instruction[o] = m68ki_cycles[o] * m68k.clock_divider


\* ------------------------------- SpecAccess: the 68k's data memory interface
\* accesses in a run
AccessCalls == 2

\* the host buffer of the RAM at 000000h holds b0 b1 b2 b3, and the memory
\* map's callbacks answer 12h 34h at 010000h, where no slot has a pointer
AccessMem(b0, b1) ==
  (0 :> b0) @@ (1 :> b1) @@ (2 :> 51) @@ (3 :> 68)
    @@ ((SlowBase + 65536) :> 18) @@ ((SlowBase + 65537) :> 52)

\* addresses of the RAM and of the callbacks, with and without bits above
\* bit 23
AccessAddrs == {0, 1, 2, 3, 65536, 65537, 16777216, 16777217, 16842752}

WordAddrs == {a \in AccessAddrs : a % 2 = 0}

InitAccess ==
  /\ m68k = m68k_init_cpu_m68000(M68kZero, 4, M68kMap, << >>)
  /\ \E b0 \in {170, 17}, b1 \in {187, 34} : mem = AccessMem(b0, b1)
  /\ z80 = InitContext(TRUE)
  /\ host_cycle = 0
  /\ call = [op |-> "init", address |-> 0, value |-> 0, result |-> 0,
             before_mem |-> << >>, n |-> 0]
  /\ obs = NoObs

CommitAccess(name, address, value, result, S) ==
  /\ mem' = S.m
  /\ obs' = S.o
  /\ call' = [op |-> name, address |-> address, value |-> value,
              result |-> result, before_mem |-> mem, n |-> call.n + 1]
  /\ UNCHANGED <<z80, host_cycle, m68k>>

AliveAccess == ~obs.crashed /\ call.n < AccessCalls

Read8Access ==
  /\ AliveAccess
  /\ \E a \in AccessAddrs :
       CommitAccess("m68ki_read_8", a, 0, m68ki_read_8(Machine68k, a),
                    Machine68k)

Read16Access ==
  /\ AliveAccess
  /\ \E a \in WordAddrs :
       CommitAccess("m68ki_read_16", a, 0, m68ki_read_16(Machine68k, a),
                    Machine68k)

Write8Access ==
  /\ AliveAccess
  /\ \E a \in AccessAddrs, v \in {90} :
       CommitAccess("m68ki_write_8", a, v, 0, m68ki_write_8(Machine68k, a, v))

Write16Access ==
  /\ AliveAccess
  /\ \E a \in WordAddrs, v \in {49356} :
       CommitAccess("m68ki_write_16", a, v, 0,
                    m68ki_write_16(Machine68k, a, v))

NextAccess ==
  \/ Read8Access
  \/ Read16Access
  \/ Write8Access
  \/ Write16Access

SpecAccess == InitAccess /\ [][NextAccess]_vars

\* a read of the RAM slot, whose buffer is at host offset 0
FastRead(name) == call.op = name /\ call.address < 65536

\* the byte reads of the fast path: the byte the host holds at the address
\* with bit 0 flipped
FastBytes ==
  FastRead("m68ki_read_8")
    => call.result = MemAt(mem, IF call.address % 2 = 0 THEN call.address + 1
                                                        ELSE call.address - 1)

\* C26 as stated: with b0 b1 ... in the buffer, m68ki_read_8(0) is b1,
\* m68ki_read_8(1) is b0 and m68ki_read_16(0) is (b0 << 8) | b1
C26_FastPathByteOrder ==
  /\ FastBytes
  /\ FastRead("m68ki_read_16")
       => call.result
            = 256 * MemAt(mem, call.address) + MemAt(mem, call.address + 1)

\* C26, amended: m68ki_read_16(0) is the host's word, (b1 << 8) | b0, which
\* is (m68ki_read_8(0) << 8) | m68ki_read_8(1)
C26_FastPathHostWord ==
  /\ FastBytes
  /\ FastRead("m68ki_read_16")
       => call.result
            = 256 * MemAt(mem, call.address + 1) + MemAt(mem, call.address)

\* AAh BBh in the buffer: the word read at 0 is BBAAh
C26_Witness ==
  /\ call.op = "m68ki_read_16" /\ call.address = 0
  /\ MemAt(mem, 0) = 170 /\ MemAt(mem, 1) = 187 /\ call.result = 48042

\* the machine the last access was made on
BeforeAccess == [c |-> m68k, m |-> call.before_mem, o |-> NoObs]

\* C28: an access on an address gives the result and leaves the memory that
\* the access on the address masked with 00FFFFFFh gives and leaves
C28_AccessMasksAddress ==
  /\ call.op = "m68ki_read_8"
       => call.result = m68ki_read_8(BeforeAccess, Mask24(call.address))
  /\ call.op = "m68ki_read_16"
       => call.result = m68ki_read_16(BeforeAccess, Mask24(call.address))
  /\ call.op = "m68ki_write_8"
       => mem = m68ki_write_8(BeforeAccess, Mask24(call.address),
                              call.value).m
  /\ call.op = "m68ki_write_16"
       => mem = m68ki_write_16(BeforeAccess, Mask24(call.address),
                               call.value).m

\* a byte written at 01000001h is in the RAM's buffer, at host offset 0,
\* and a byte read at 01010000h is the callback's at 010000h
C28_Witness ==
  \/ /\ call.op = "m68ki_write_8" /\ call.address = 16777217
     /\ MemAt(mem, 0) = 90 /\ MemAt(call.before_mem, 0) # 90
  \/ /\ call.op = "m68ki_read_8" /\ call.address = 16842752
     /\ call.result = 18


\* ------------------------------------- SpecSlots: the pointer slots at init
\* one chunk from address 0 on: every set of the flags the initialisers and
\* get_native_pointer look at, with and without a buffer, shorter than a
\* slot, 64 KiB and 128 KiB long, mem_pointers[0] bound or not
SlotFlags == {"READ", "WRITE", "ONLY_ODD", "ONLY_EVEN", "PTR_IDX"}

SlotChunks ==
  { [start |-> 0, end |-> e, flags |-> f, buffer |-> b, ptr_index |-> 0] :
      e \in {4096, 65536, 131072}, f \in SUBSET SlotFlags,
      b \in {NULL, 4096} }

InitSlots ==
  /\ \E chunk \in SlotChunks, p \in {NULL, 8192} :
       call = [op |-> "init", map |-> <<chunk>>, mem_pointers |-> <<p>>,
               size |-> 0, read_pointers |-> << >>, write_pointers |-> << >>]
  /\ m68k = M68kZero
  /\ z80 = InitContext(TRUE)
  /\ mem = M68kMem
  /\ host_cycle = 0
  /\ obs = NoObs

\* init_z80_context: the eight 8 KiB slots
Z80Slots == 0 .. 7

InitZ80Slots ==
  /\ call.op = "init"
  /\ call' = [call EXCEPT
       !.op = "init_z80_context", !.size = 8192,
       !.read_pointers =
          [s \in Z80Slots |->
             Z80SlotPointer(call.map, call.mem_pointers, s * 8192, "READ")],
       !.write_pointers =
          [s \in Z80Slots |->
             Z80SlotPointer(call.map, call.mem_pointers, s * 8192, "WRITE")]]
  /\ UNCHANGED <<z80, mem, host_cycle, obs, m68k>>

InitM68kSlots ==
  /\ call.op = "init"
  /\ m68k' = m68k_init_cpu_m68000(m68k, 4, call.map, call.mem_pointers)
  /\ call' = [call EXCEPT
       !.op = "m68k_init_cpu_m68000", !.size = 65536,
       !.read_pointers = m68k'.read_pointers,
       !.write_pointers = m68k'.write_pointers]
  /\ UNCHANGED <<z80, mem, host_cycle, obs>>

NextSlots ==
  \/ InitZ80Slots
  \/ InitM68kSlots

SpecSlots == InitSlots /\ [][NextSlots]_vars

\* the chunk covers the slot at the address, has a buffer, is of both byte
\* lanes and has no pointer index
PlainChunk(chunk, address, size) ==
  /\ Covers(chunk, address) /\ chunk.end >= address + size
  /\ chunk.buffer # NULL
  /\ chunk.flags \cap {"ONLY_ODD", "ONLY_EVEN", "PTR_IDX"} = {}

SlotJustified(ptrs, s, need) ==
  ptrs[s] # NULL
    => /\ PlainChunk(find_map_chunk(s * call.size, call.map), s * call.size,
                     call.size)
       /\ need \in find_map_chunk(s * call.size, call.map).flags

\* C27: after either initialiser a slot of read_pointers or write_pointers
\* is non-null only if the chunk at its base covers it, has a buffer, has
\* none of ONLY_ODD, ONLY_EVEN and PTR_IDX, and has READ for a read slot,
\* WRITE for a write slot
C27_SlotsOnlyForPlainChunks ==
  (call.op \in {"init_z80_context", "m68k_init_cpu_m68000"})
    => \A s \in DOMAIN call.read_pointers :
         /\ SlotJustified(call.read_pointers, s, "READ")
         /\ SlotJustified(call.write_pointers, s, "WRITE")


\* C29: no interrupt is accepted at the boundary after an EI: the
\* instruction executed last before an acceptance is never EI (FBh), and a
\* call entered in the EI shadow accepts none before it has executed an
\* instruction
C29_NoInterruptInEiShadow ==
  \A a \in obs.int_log :
    /\ a.last_op # 251
    /\ obs.entry.after_ei = 1 => a.pos > obs.entry_cycle

\* the call before returned right after an EI with the pulse window open,
\* and this call has accepted the interrupt, after one instruction
C29_Witness ==
  /\ call.op = "z80_run" /\ obs.entry.after_ei = 1 /\ obs.entry.iff1 = 1
  /\ \E a \in obs.int_log : a.start <= obs.entry_cycle /\ a.pos > obs.entry_cycle


\* ------------------------------------------- SpecLdir: the passes of an LDIR
\* T-states of a run
LdirBudget == 70

\* LDIR at BranchPC, NOPs after it, 11h 22h 33h 44h at 2000h
LdirMem == Bytes(BranchPC, <<237, 176>>) @@ Bytes(8192, <<17, 34, 51, 68>>)

\* the destinations: 3000h, and 2001h, inside the source
LdirDests == {12288, 8193}

LdirCounts == 0 .. 3

LdirContext(bc, de, a, f) ==
  [InitContext(TRUE) EXCEPT !.m_pc = BranchPC, !.m_sp = 32768, !.m_f = f,
                            !.m_bc = bc, !.m_a = a, !.m_hl = 8192,
                            !.m_de = de, !.m_icount = LdirBudget]

\* call holds the registers the run started with and counts its passes
InitLdir ==
  /\ \E bc \in LdirCounts, de \in LdirDests, a \in {0, 7}, f \in {0, 255} :
       /\ z80 = LdirContext(bc, de, a, f)
       /\ call = [op |-> "init", bc |-> bc, de |-> de, hl |-> 8192, n |-> 0]
  /\ mem = LdirMem
  /\ host_cycle = 0
  /\ obs = NoObs
  /\ m68k = M68kZero

CommitLdir(S) ==
  /\ z80' = S.c
  /\ mem' = S.m
  /\ obs' = S.o
  /\ call' = [call EXCEPT !.op = "pass", !.n = @ + 1]
  /\ UNCHANGED <<host_cycle, m68k>>

\* a loop pass, no interrupt due
LdirPass ==
  /\ Alive
  /\ LoopContinues(Machine)
  /\ CommitLdir(Dispatch([Machine EXCEPT !.o.iter_icount = z80.m_icount]))

SpecLdir == InitLdir /\ [][LdirPass]_vars

\* the pass dispatches the LDIR
AtLdir == z80.m_pc = BranchPC /\ call'.op = "pass"

\* one dispatch: the byte, the three registers, and the PC and the T-states
\* by the new BC
LdirDispatch ==
  /\ MemAt(mem', z80.m_de) = MemAt(mem, z80.m_hl)
  /\ z80'.m_hl = u16(z80.m_hl + 1)
  /\ z80'.m_de = u16(z80.m_de + 1)
  /\ z80'.m_bc = u16(z80.m_bc - 1)
  /\ z80'.m_bc # 0 => z80'.m_pc = z80.m_pc /\ obs'.last_cost = 21
  /\ z80'.m_bc = 0 => z80'.m_pc = u16(z80.m_pc + 2) /\ obs'.last_cost = 16

\* the destination of a run from BC = n
LdirRange == call.de .. (call.de + call.bc - 1)

\* the last dispatch of a run from BC = n >= 1 was its n-th: n bytes are
\* written, the memory outside the destination is as it was, and a
\* destination apart from the source holds the source's bytes
LdirDone ==
  /\ call'.n = call.bc
  /\ z80'.m_hl = call.hl + call.bc /\ z80'.m_de = call.de + call.bc
  /\ z80'.m_icount = LdirBudget - (21 * (call.bc - 1) + 16)
  /\ \A x \in (DOMAIN mem' \cup DOMAIN LdirMem) \ LdirRange :
       MemAt(mem', x) = MemAt(LdirMem, x)
  /\ call.de >= call.hl + call.bc
       => \A i \in 0 .. (call.bc - 1) :
            MemAt(mem', call.de + i) = MemAt(LdirMem, call.hl + i)

\* C30: one dispatch of LDIR copies the byte at HL to DE, increments HL and
\* DE and decrements BC (mod 2^16); with the new BC not 0 the PC is back on
\* the ED prefix and 21 T-states are charged, with the new BC 0 the PC is
\* after the instruction and 16 are charged; the dispatches from BC = n >= 1
\* copy n bytes
C30_LdirCopies ==
  [][AtLdir => /\ LdirDispatch
               /\ z80'.m_bc = 0 => LdirDone]_vars

\* a run from BC = 3 to 3000h has finished: 11h 22h 33h are there
C30_Witness ==
  /\ call.op = "pass" /\ call.bc = 3 /\ call.n = 3 /\ z80.m_bc = 0
  /\ z80.m_pc = BranchPC + 2
  /\ MemAt(mem, 12288) = 17 /\ MemAt(mem, 12289) = 34
  /\ MemAt(mem, 12290) = 51 /\ MemAt(mem, 12291) = 0


\* the context is as it was, but for current_cycle
FrozenStep == z80' = [z80 EXCEPT !.current_cycle = z80'.current_cycle]

\* C31: with busreq asserted, a z80_run or z80_get_busack dispatches at most
\* one instruction, and only with busack still 0, which it then sets; with
\* busack 1 it dispatches nothing and leaves PC, the registers and the
\* memory as they are, so that only one instruction follows the request
C31_OneInstructionThenFrozen ==
  [][(z80.busreq = 1 /\ call'.op \in {"z80_run", "z80_get_busack"})
       => /\ obs'.dispatches <= 1
          /\ obs'.dispatches = 1 => (z80.busack = 0 /\ z80'.busack = 1)
          /\ z80.busack = 1
               => (obs'.dispatches = 0 /\ obs'.ints = 0 /\ mem' = mem
                     /\ FrozenStep)]_vars

\* the call after the one that ran the instruction in flight: the Z80 is
\* frozen and only its clock has moved
C31_Witness ==
  /\ call.op = "z80_run" /\ call.prev = "z80_get_busack"
  /\ z80.busreq = 1 /\ z80.busack = 1 /\ obs.dispatches = 0
  /\ z80.current_cycle = call.cycle /\ obs.entry.cycle < call.cycle


\* C32: z80_run with current_cycle at or past the target, and neither busack
\* nor reset set, changes nothing: no field of the context, no byte of
\* memory, no instruction, no interrupt, no callback, and busack stays 0
\* even with busreq set
C32_PastTargetIsNoOp ==
  [][(call'.op = "z80_run" /\ z80.busack = 0 /\ z80.reset = 0
        /\ z80.current_cycle >= call'.cycle)
       => (z80' = z80 /\ mem' = mem /\ obs'.dispatches = 0
             /\ obs'.ints = 0 /\ obs'.cb_calls = 0 /\ obs'.writes = 0
             /\ ~obs'.crashed)]_vars

\* a z80_run that found the Z80 ahead of its target with busreq pending
C32_Witness ==
  /\ call.op = "z80_run" /\ call.prev = "z80_assert_busreq"
  /\ z80.busreq = 1 /\ z80.busack = 0 /\ z80.reset = 0
  /\ obs.entry.cycle > call.cycle /\ z80.current_cycle = obs.entry.cycle


\* T-states the instructions and interrupts of the last call took from the
\* budget loaded at its entry
ChargedTStates == obs.entry_icount - z80.m_icount

\* C33: a z80_run that ran its loop and ended without a bus acknowledge
\* advances current_cycle by clock_divider times the T-states it charged
C33_ExactAccounting ==
  (call.op = "z80_run" /\ Returned /\ obs.dispatches >= 1 /\ z80.busack = 0)
    => z80.current_cycle - obs.entry.cycle = ClockDivider * ChargedTStates


\* ------------------------------------------------- DD/FD prefix chains
\* The nested dispatch of op_dd/op_fd and dd_dd/dd_fd/fd_dd/fd_fd, one
\* action per EXEC: op_dd runs EXEC(dd, rop), whose handler for DD or FD
\* calls op_dd or op_fd again, without a return to the loop of z80_run.
PrefixBudget == 65536

PrefixIcount == 40

PrefixByte(op) == op = 221 \/ op = 253

\* CC(prefix, op) and the PC++ of rop, for the byte at PC
ExecHead(S, table) ==
  [CC(SkipPC(S, 1), CCv(table, rop(S))) EXCEPT !.o.opcodes = @ + 1]

\* op_dd and op_fd up to their EXEC
PrefixEnter(S) == [S EXCEPT !.c.m_r = u8(@ + 1)]

\* every address reads DD; the same with FD DD FD at 0000h; every address
\* but 0005h reads DD, and 0005h a NOP; the program of the prefixed store
PrefixMems ==
  { (-1 :> 221),
    Bytes(0, <<253, 221, 253>>) @@ (-1 :> 221),
    (5 :> 0) @@ (-1 :> 221),
    ProgPrefix }

\* call holds the PC of the first byte of the instruction being dispatched,
\* the prefix bytes fetched for it, and the dispatches made
InitPrefix ==
  /\ z80 = [InitContext(TRUE) EXCEPT !.m_icount = PrefixIcount]
  /\ mem \in PrefixMems
  /\ call = [op |-> "init", start |-> 0, chain |-> 0, n |-> 0]
  /\ host_cycle = 0
  /\ obs = NoObs
  /\ m68k = NULL

CommitPrefix(name, chain, S) ==
  /\ z80' = S.c
  /\ mem' = S.m
  /\ obs' = S.o
  /\ call' = [op |-> name, chain |-> chain, n |-> call.n + 1,
              start |-> IF call.op = "chain" THEN call.start ELSE z80.m_pc]
  /\ UNCHANGED <<host_cycle, m68k>>

AtBoundary == call.op # "chain" /\ LoopContinues(Machine)

InChain == call.op = "chain"

\* a loop pass whose opcode is DD or FD: EXEC(op, rop) enters op_dd/op_fd
PrefixOpen ==
  /\ Alive /\ call.n < PrefixBudget
  /\ AtBoundary /\ PrefixByte(rop(Machine))
  /\ CommitPrefix("chain", 1,
       PrefixEnter(ExecHead(
         Prefetch([Machine EXCEPT !.o.iter_icount = z80.m_icount]), cc_op)))

\* EXEC(dd, rop) or EXEC(fd, rop) on another DD or FD: illegal_1, then
\* op_dd/op_fd again
PrefixNested ==
  /\ Alive /\ call.n < PrefixBudget
  /\ InChain /\ PrefixByte(rm([m |-> mem], z80.m_pc))
  /\ CommitPrefix("chain", call.chain + 1,
       PrefixEnter(ExecHead([c |-> z80, m |-> mem, o |-> obs], cc_xy)))

\* EXEC(dd, rop) or EXEC(fd, rop) on any other byte: its handler returns,
\* and so do the handlers of the chain, to the end of the loop pass
PrefixClose ==
  /\ Alive /\ call.n < PrefixBudget
  /\ InChain /\ ~PrefixByte(rm([m |-> mem], z80.m_pc))
  /\ CommitPrefix("done", call.chain,
       BusreqCheck(NoteCost(EXEC_xy([c |-> z80, m |-> mem, o |-> obs]))))

\* a loop pass whose opcode is no prefix
PrefixPlain ==
  /\ Alive /\ call.n < PrefixBudget
  /\ AtBoundary /\ ~PrefixByte(rop(Machine))
  /\ CommitPrefix("done", 0,
       Dispatch([Machine EXCEPT !.o.iter_icount = z80.m_icount]))

NextPrefix == PrefixOpen \/ PrefixNested \/ PrefixClose \/ PrefixPlain

SpecPrefix == InitPrefix /\ [][NextPrefix]_vars

\* C34: the dispatch of an instruction ends: its chain of DD/FD prefix
\* bytes does not come back to the address of its first byte, from where,
\* the chain having written nothing, it would fetch the same bytes again
C34_PrefixChainEnds == InChain => z80.m_pc # call.start


\* C35: a z80_run of a context without a next_int_pulse callback makes no
\* call through the null pointer, also when it accepts an interrupt
C35_NullCallbackNeverCalled ==
  (call.op \in RunCalls /\ ~z80.next_int_pulse) => ~obs.crashed


\* ------------------------------------------------- interrupt flip-flops
\* The loop passes of successive z80_run calls, with an interrupt accepted
\* wherever the loop's test lets one in and the host's reset between passes.
IffBudget == 60

\* IM 1; EI; NOP; DI; EI; HALT, and at 0038h one of the handlers
\* EI; RETI      RETN      DI; RETI      EI; RETN
IffHandlers == {<<251, 237, 77>>, <<237, 69>>, <<243, 237, 77>>, <<251, 237, 69>>}

IffMems ==
  {Bytes(0, <<237, 86, 251, 0, 243, 251, 118>>) @@ Bytes(56, h) :
     h \in IffHandlers}

InitIff ==
  /\ z80 = [InitContext(TRUE) EXCEPT !.m_sp = 32768, !.m_icount = IffBudget]
  /\ mem \in IffMems
  /\ host_cycle = 0
  /\ call = [op |-> "init", cycle |-> 0, prev |-> "init", released |-> -1]
  /\ obs = NoObs
  /\ m68k = M68kZero

\* the dispatch of a loop pass, after the interrupt branch or without it
IffPass ==
  /\ Alive /\ z80.reset = 0
  /\ LoopContinues(Machine)
  /\ Commit("pass", 0,
            Dispatch([Machine EXCEPT !.o.iter_icount = z80.m_icount]))

\* the interrupt branch of a loop pass
IffAccept ==
  /\ Alive /\ z80.reset = 0 /\ call.op # "take_interrupt"
  /\ LoopContinues(Machine)
  /\ z80.m_iff1 # 0 /\ z80.m_after_ei = 0
  /\ Commit("take_interrupt", 0, take_interrupt(LogInterrupt(Machine)))

\* z80_assert_reset and z80_clear_reset at the context's own cycle, where
\* their z80_run has nothing to run
IffAssertReset ==
  /\ Alive /\ z80.reset = 0 /\ z80.m_icount > 0
  /\ Commit("z80_assert_reset", 0,
            z80_assert_reset(Machine, z80.current_cycle))

IffClearReset ==
  /\ Alive /\ z80.reset = 1
  /\ Commit("z80_clear_reset", 0,
            z80_clear_reset(Machine, z80.current_cycle))

NextIff == IffPass \/ IffAccept \/ IffAssertReset \/ IffClearReset

SpecIff == InitIff /\ [][NextIff]_vars

\* C36: the two interrupt flip-flops are equal in every state: across the
\* instructions (EI, DI, RETI and RETN among them), the accepted interrupts
\* and the resets
C36_FlipFlopsEqual == z80.m_iff1 = z80.m_iff2

\* the pass that ran the RETI or RETN of a handler entered by an accepted
\* interrupt, after the handler's EI: IFF2, copied into IFF1, was set
C36_Witness ==
  /\ call.op = "pass" /\ rm([m |-> mem], z80.m_prvpc) = 237
  /\ rm([m |-> mem], z80.m_prvpc + 1) \in {69, 77}
  /\ z80.m_iff1 = 1 /\ z80.m_iff2 = 1 /\ z80.m_sp = 32768


\* ------------------------------------------------- two-phase 68k interrupt
\* the call was m68ki_exception_interrupt with no interrupt latched
LatchCall ==
  call.op = "m68ki_exception_interrupt" /\ call.before.int_pending = INT_NONE

\* the context the call started with, with STOP_LEVEL_STOP cleared and the
\* instruction mode of the 68000 set: what the call writes before its tests
AfterStopCleared ==
  [call.before EXCEPT !.stopped = (@ \div 2) * 2,
                      !.instr_mode = INSTRUCTION_NO]

\* the call has latched its level and done nothing else
LatchedOnly ==
  /\ m68k = [AfterStopCleared EXCEPT !.int_pending = call.cycle]
  /\ mem = call.before_mem

\* the later call serviced the latched level, not its own argument
ServicedLatched ==
  Serviced => (m68k.int_ack = ServicedLevel
                 /\ m68k.int_mask = 256 * ServicedLevel
                 /\ m68k.int_pending = INT_NONE)

\* C37 as stated: whenever no interrupt is latched the call records its
\* level, clears STOP_LEVEL_STOP, and leaves the stack, PC, int_mask,
\* int_ack and the cycle count alone; a later call on a CPU that is not
\* halted services the latched level
C37_LatchThenService == (LatchCall => LatchedOnly) /\ ServicedLatched

\* C37, amended: the level is recorded only on a CPU that is not halted; a
\* halted CPU keeps int_pending at 255 and the call changes nothing but the
\* STOP bit and instr_mode
C37_LatchUnlessHalted ==
  /\ (LatchCall /\ call.before.stopped < STOP_LEVEL_HALT) => LatchedOnly
  /\ (LatchCall /\ call.before.stopped >= STOP_LEVEL_HALT)
       => (m68k = AfterStopCleared /\ mem = call.before_mem)
  /\ ServicedLatched

\* a stopped CPU with nothing latched took the call: the STOP state is left,
\* the level is latched, and PC, stack pointer and cycle count are as before
C37_Witness ==
  /\ LatchCall /\ call.before.stopped = STOP_LEVEL_STOP
  /\ m68k.stopped = 0 /\ m68k.int_pending = call.cycle
  /\ m68k.pc = call.before.pc /\ m68k.sp = call.before.sp
  /\ m68k.current_cycle = call.before.current_cycle


\* ------------------------------------------------- 16-bit fast-path write
\* Three 64 KiB regions with buffers: read and write; write only; read only.
\* The slot loop gives the first both slots, the second a write slot and no
\* read slot, the third a read slot and no write slot.
Write16Map ==
  << [start |-> 0, end |-> 65536, flags |-> {"READ", "WRITE"}, buffer |-> 0,
      ptr_index |-> 0],
     [start |-> 65536, end |-> 131072, flags |-> {"WRITE"},
      buffer |-> 65536, ptr_index |-> 0],
     [start |-> 131072, end |-> 196608, flags |-> {"READ"},
      buffer |-> 131072, ptr_index |-> 0] >>

Write16Addrs == {0, 2, 65536, 65538, 131072, 16777216, 16842752}

Write16Values == {49356, 4660}

InitWrite16 ==
  /\ m68k = m68k_init_cpu_m68000(M68kZero, 4, Write16Map, << >>)
  /\ \E b0 \in {170, 17} : mem = (0 :> b0) @@ (1 :> 187) @@ (65536 :> 51)
  /\ z80 = InitContext(TRUE)
  /\ host_cycle = 0
  /\ call = [op |-> "init", address |-> 0, value |-> 0, result |-> 0,
             before_mem |-> << >>, n |-> 0]
  /\ obs = NoObs

Write16Word ==
  /\ AliveAccess
  /\ \E a \in Write16Addrs, v \in Write16Values :
       CommitAccess("m68ki_write_16", a, v, 0,
                    m68ki_write_16(Machine68k, a, v))

Write16Byte ==
  /\ AliveAccess
  /\ \E a \in Write16Addrs, v \in {90} :
       CommitAccess("m68ki_write_8", a + 1, v, 0,
                    m68ki_write_8(Machine68k, a + 1, v))

NextWrite16 == Write16Word \/ Write16Byte

SpecWrite16 == InitWrite16 /\ [][NextWrite16]_vars

\* the last call was a m68ki_write_16 to a region with a write slot
Write16Fast ==
  /\ call.op = "m68ki_write_16"
  /\ m68k.write_pointers[SlotOf(Mask24(call.address))] # NULL

\* the memory after m68ki_write_8(a, v >> 8); m68ki_write_8(a + 1, v & 0xFF)
\* from the memory the call started with
TwoByteWrites ==
  m68ki_write_8(
    m68ki_write_8([c |-> m68k, m |-> call.before_mem, o |-> NoObs],
                  call.address, call.value \div 256),
    call.address + 1, call.value % 256).m

\* C38: m68ki_write_16 to an even address of a region whose write slot is
\* installed dereferences no null pointer and leaves the memory that the two
\* byte writes of its high and low byte leave, with or without a read slot
C38_Write16ThroughWriteSlot ==
  Write16Fast => (~obs.crashed /\ mem = TwoByteWrites)


\* the slots of a table of 256 entries, one per 64 KiB of a 24-bit space
TableSlots == 0 .. (16777216 \div 65536 - 1)

\* C39: the slot loop of m68k_init_cpu_m68000 writes no entry of
\* read_pointers or write_pointers outside 0..255
C39_SlotIndicesInTable ==
  call.op = "m68k_init_cpu_m68000"
    => /\ DOMAIN call.read_pointers \subseteq TableSlots
       /\ DOMAIN call.write_pointers \subseteq TableSlots


\* ------------------------------------------------- Sega CD gate array
\* The write handlers of the gate-array registers, on the main CPU's map and
\* on the sub CPU's; cd is the segacd_context both reach, and each handler
\* runs to its end before the other CPU's next access.
GateCalls == 3

GateRegs == 0 .. 255

\* (address & 0x1FF) >> 1
GateReg(address) == (address % 512) \div 2

HighByte(w) == (w \div 256) * 256

LowByte(w) == w % 256

\* the value16 a byte write builds from the register and its byte
GateMerge(cd, address, value) ==
  IF address % 2 = 1
    THEN HighByte(cd.gate_array[GateReg(address)]) + value
    ELSE LowByte(cd.gate_array[GateReg(address)]) + 256 * value

sub_gate_write16(cd, address, value) ==
  IF GateReg(address) = 7
    THEN [cd EXCEPT !.gate_array[7] = HighByte(@) + LowByte(value)]
  ELSE IF GateReg(address) \in 16 .. 23
    THEN [cd EXCEPT !.gate_array[GateReg(address)] = value]
  ELSE cd

sub_gate_write8(cd, address, value) ==
  sub_gate_write16(cd, address, GateMerge(cd, address, value))

\* register 7 stored whole
main_gate_write16_whole(cd, address, value) ==
  IF GateReg(address) \in 7 .. 15
    THEN [cd EXCEPT !.gate_array[GateReg(address)] = value]
  ELSE cd

main_gate_write16(cd, address, value) ==
  IF GateReg(address) = 7
    THEN [cd EXCEPT !.gate_array[7] = LowByte(@) + HighByte(value)]
  ELSE IF GateReg(address) \in 8 .. 15
    THEN [cd EXCEPT !.gate_array[GateReg(address)] = value]
  ELSE cd

main_gate_write8(cd, address, value) ==
  main_gate_write16(cd, address, GateMerge(cd, address, value))

\* byte addresses of registers 6, 7, 8, 0Fh, 10h, 17h and 18h, and 20Eh,
\* which the mask takes to register 7
GateAddrs == {12, 14, 15, 16, 31, 32, 47, 48, 526}

GateWords == {4660, 43981}

GateBytes == {90, 255}

\* the context alloc_configure_segacd returns: calloc, every register 0
InitGate ==
  /\ m68k = [gate_array |-> [r \in GateRegs |-> 0]]
  /\ call = [op |-> "init", cpu |-> "none", address |-> 0, value |-> 0,
             before |-> [r \in GateRegs |-> 0], ret |-> "none", n |-> 0]
  /\ z80 = InitContext(TRUE)
  /\ mem = << >>
  /\ host_cycle = 0
  /\ obs = NoObs

\* every handler ends with return vcontext
CommitGate(name, cpu, address, value, cd) ==
  /\ m68k' = cd
  /\ call' = [op |-> name, cpu |-> cpu, address |-> address, value |-> value,
              before |-> m68k.gate_array, ret |-> "vcontext",
              n |-> call.n + 1]
  /\ UNCHANGED <<z80, mem, host_cycle, obs>>

MainWrite16 ==
  /\ call.n < GateCalls
  /\ \E a \in GateAddrs, v \in GateWords :
       CommitGate("main_gate_write16", "main", a, v,
                  main_gate_write16(m68k, a, v))

MainWrite8 ==
  /\ call.n < GateCalls
  /\ \E a \in GateAddrs, v \in GateBytes :
       CommitGate("main_gate_write8", "main", a, v,
                  main_gate_write8(m68k, a, v))

SubWrite16 ==
  /\ call.n < GateCalls
  /\ \E a \in GateAddrs, v \in GateWords :
       CommitGate("sub_gate_write16", "sub", a, v,
                  sub_gate_write16(m68k, a, v))

SubWrite8 ==
  /\ call.n < GateCalls
  /\ \E a \in GateAddrs, v \in GateBytes :
       CommitGate("sub_gate_write8", "sub", a, v,
                  sub_gate_write8(m68k, a, v))

NextGate == MainWrite16 \/ MainWrite8 \/ SubWrite16 \/ SubWrite8

SpecGate == InitGate /\ [][NextGate]_vars

\* the registers a CPU's writes may change, register 7 apart
OwnRegs(cpu) == IF cpu = "main" THEN 8 .. 15 ELSE 16 .. 23

\* the registers of gate_array that differ from before the call
GateChanged ==
  {r \in GateRegs : m68k.gate_array[r] # call.before[r]}

\* C40: whatever the order of the main CPU's and the sub CPU's writes, a
\* sub-CPU write leaves the high byte of register 7 and a main-CPU write its
\* low byte; registers 08h..0Fh change only under main-CPU writes and
\* 10h..17h only under sub-CPU writes; a write to any other register changes
\* nothing; and every handler returns the context
C40_GateRegistersByOwner ==
  call.op # "init"
    => /\ call.ret = "vcontext"
       /\ GateChanged \subseteq {GateReg(call.address)}
       /\ GateChanged \subseteq ({7} \cup OwnRegs(call.cpu))
       /\ call.cpu = "sub"
            => HighByte(m68k.gate_array[7]) = HighByte(call.before[7])
       /\ call.cpu = "main"
            => LowByte(m68k.gate_array[7]) = LowByte(call.before[7])

\* a sub-CPU byte write to the low byte of register 7 after a main-CPU write
\* of its high byte: each half holds what its owner wrote
C40_Witness ==
  /\ call.op = "sub_gate_write8" /\ call.address = 15 /\ call.n >= 2
  /\ call.before[7] = HighByte(4660)
  /\ m68k.gate_array[7] = HighByte(4660) + call.value

====
